---- MODULE Spec2Model ----
(***************************************************************************)
(* Model of the service status monitor: the Watcher poll loop with its     *)
(* per-source dedup state (src/core/watcher.py) and the RSS extraction     *)
(* cascade (src/adapters/rss_adapter.py and its subclasses).               *)
(*                                                                         *)
(* The Watcher is one asyncio coroutine.  Between two awaits its code runs *)
(* atomically, so each action below is the code from one await to the next *)
(* one: the return (or the exception) of the awaited call, followed by     *)
(* everything the coroutine does until it awaits again.                    *)
(***************************************************************************)
EXTENDS Integers, Sequences, FiniteSets, TLC

(***************************************************************************)
(* Bounds and program constants                                            *)
(***************************************************************************)
\* longest feed a provider returns in the model
MaxFeedLen == 2

\* incident ids the providers use in the model
Ids == {"x1", "x2"}

\* default of fetch_latest_incidents_async(limit=3)
FetchLimit == 3

\* incidents[:3] of show_initial_status
InitialShown == 3

\* Settings.POLL_INTERVAL default, the Watcher's poll_interval
DefaultPollInterval == 15

\* a poll_interval argument given to start_monitoring; 0 stands for None
PollIntervalArgs == {0, 5}

\* the registry in registration order (dict order), as main.py fills it
Registry == <<"openai", "bolna">>

NumAdapters == Len(Registry)

Sources == {Registry[i] : i \in 1..NumAdapters}

\* every list a provider's feed can hold
FeedLists == UNION {[1..n -> Ids] : n \in 0..MaxFeedLen}

MinOf(S) == CHOOSE x \in S : \A y \in S : x <= y

\* python's s[:n]
TakeLast(s, n) == SubSeq(s, Len(s) - (IF n < Len(s) THEN n ELSE Len(s)) + 1, Len(s))

Take(s, n) == SubSeq(s, 1, IF n < Len(s) THEN n ELSE Len(s))

\* the ids of a list
IdsOf(s) == {s[i] : i \in 1..Len(s)}

VARIABLES
    pc,             \* where the start_monitoring coroutine is suspended
    ai,             \* position in the registry of the adapter being handled
    incidents,      \* the list the current for-loop iterates
    idx,            \* position in incidents of the incident being processed
    last_seen_ids,  \* Watcher.last_seen_ids: source -> set of ids
    interval,       \* the local 'interval' of start_monitoring (0: not set)
    slept,          \* argument of the latest asyncio.sleep call (0: none yet)
    pass,           \* "baseline", "first" cycle or "later" cycle
    status,         \* this pass, per source: pending / ok / fetch_failed / process_failed
    lastRun,        \* the status each source ended the previous pass with
    fetched,        \* per source: the list its latest successful fetch returned
    same,           \* per source: this cycle's fetch returned the list of the previous cycle's fetch
    seenAtStart,    \* last_seen_ids when the current pass started
    cycleEmitted,   \* per source: ids announced as NEW UPDATE in this cycle, in order
    failed,         \* <<source, id>> pairs whose processing has raised
    stopRequested,  \* a caller has asked the watcher to stop (test_stop_monitoring)
    rss,            \* the state of one RSSAdapter.process_incident_async call
    rssFeed,        \* one call of RSSParser.fetch_rss_feed_async
    openai,         \* one OpenAIAdapter instance and the calls made on it
    fmt,            \* one call of _format_incidents or of format_incident
    adapters,       \* AdapterRegistry.adapters and the latest call on the registry
    parser,         \* one call of a page parser of HTMLIncidentParser
    turn,           \* one adapter's for-loop over its raw incidents, pass after pass
    tasks           \* check_incidents runs interleaved on one Watcher

\* the variables of the parts that are modelled on their own
ext == <<rssFeed, openai, fmt, adapters, parser, turn, tasks>>

wvars == <<pc, ai, incidents, idx, last_seen_ids, interval, slept, pass, status,
           lastRun, fetched, same, seenAtStart, cycleEmitted, failed>>

vars == <<pc, ai, incidents, idx, last_seen_ids, interval, slept, pass, status,
          lastRun, fetched, same, seenAtStart, cycleEmitted, failed,
          stopRequested, rss, ext>>

(***************************************************************************)
(* RSS adapters: the inputs of process_incident_async                      *)
(***************************************************************************)
\* most <li> items in an RSS description
MaxItems == 2

\* most keywords a title contains
MaxTitleKeywords == 2

\* most services a detail page parser returns
MaxPageServices == 2

\* python's None, where a string can stand
PyNone == "<None>"

\* the RSS adapter classes, with their _name
RssAdapters == {"Bolna", "Claude", "RSS"}

\* INCIDENT_PARSER_TYPE of each class; PyNone in the base class
ParserType(adapter) ==
    CASE adapter = "Bolna" -> "bolna"
      [] adapter = "Claude" -> "claude"
      [] OTHER -> PyNone

\* A service name is the sequence of its parts between " - " separators:
\* <<"API", "Chat Completions">> is "API - Chat Completions".
ServiceNames == {<<"Webhooks">>, <<"API", "Chat Completions">>}

\* The substrings the fallbacks look for in title.lower().  A title is the
\* set of these it contains, or it is None (an empty <title/> element:
\* fetch_rss_feed_async stores title.text).
Keywords == {"twilio", "voice", "api", "webhook", "claude.ai", "web", "platform", "console"}

Titles ==
    {[none |-> TRUE, kws |-> {}]} \cup
    {[none |-> FALSE, kws |-> k] : k \in
        {k \in SUBSET Keywords :
            /\ Cardinality(k) <= MaxTitleKeywords
            /\ "webhook" \in k => "web" \in k}}

\* 'link': None (empty element), 'N/A' (no element), '' or a URL
Links == {PyNone, "", "N/A", "https://status.example/incidents/1"}

\* 'pub_date'
PubDates == {"N/A", "Mon, 03 Nov 2025 14:32:00 GMT"}

\* An RSS description: None (empty element), or text holding a sequence of
\* <li> items, each a name followed or not by a "(Status)" parenthesis.
ListItems == [name : ServiceNames, status : BOOLEAN]

Descriptions ==
    {[none |-> TRUE, items |-> <<>>]} \cup
    {[none |-> FALSE, items |-> it] : it \in UNION {[1..n -> ListItems] : n \in 0..MaxItems}}

\* what a detail page parser can return
PageLists == UNION {[1..n -> ServiceNames] : n \in 0..MaxPageServices}

\* python truthiness of a string or None
Truthy(x) == x \notin {PyNone, ""}

RssUnused ==
    [pc |-> "unused", adapter |-> "RSS", title |-> [none |-> TRUE, kws |-> {}],
     link |-> PyNone, description |-> [none |-> TRUE, items |-> <<>>],
     pub_date |-> "N/A", consulted |-> <<>>, pageFetches |-> 0, page |-> "none",
     pageServices |-> <<>>, result |-> <<>>, raisedBy |-> "none"]

(***************************************************************************)
(* Watcher                                                                 *)
(***************************************************************************)
\* 'incident_id not in self.last_seen_ids.get(adapter_name, set())'
IsNovelAlways(id, seenSet) == TRUE

IsNovel(id, seenSet) == id \notin seenSet

\* 'self.last_seen_ids.setdefault(adapter_name, set()).add(incident_id)'
MarkSeenEverywhere(seen, s, id) == [x \in DOMAIN seen |-> seen[x] \cup {id}]

MarkSeenReplace(seen, s, id) == [seen EXCEPT ![s] = {id}]

MarkSeenNever(seen, s, id) == seen

MarkSeen(seen, s, id) == [seen EXCEPT ![s] = @ \cup {id}]

\* the for-loop of check_incidents from position 'from' on: the next
\* incident that passes the novelty test, 0 when the loop runs out
NextNovelStopAtSeen(list, from, seenSet) ==
    IF from <= Len(list) /\ IsNovel(list[from], seenSet) THEN from ELSE 0

NextNovelAny(list, from, seenSet) == IF from <= Len(list) THEN from ELSE 0

NextNovelFirstOnly(list, from, seenSet) ==
    IF from = 1 /\ Len(list) >= 1 /\ IsNovel(list[1], seenSet) THEN 1 ELSE 0

NextNovel(list, from, seenSet) ==
    LET c == {j \in from..Len(list) : IsNovel(list[j], seenSet)}
    IN  IF c = {} THEN 0 ELSE MinOf(c)

\* the adapter the for-loop over the registry handles after adapter i, when
\* adapter i ended normally (raised = FALSE) or in the except clause;
\* NumAdapters + 1 when the loop is over
AfterSourceRetry(i, raised) == IF raised THEN i ELSE i + 1

AfterSourceAbort(i, raised) == IF raised THEN NumAdapters + 1 ELSE i + 1

AfterSource(i, raised) == i + 1

\* start_monitoring after check_incidents: 'await asyncio.sleep(interval)'
AfterCheckStop == "returned"

AfterCheck == "sleep"

\* start_monitoring when asyncio.sleep returns: 'while True'
AfterSleep == "fetch"

\* 'interval = poll_interval or self.poll_interval'
IntervalOf(arg) == IF arg # 0 THEN arg ELSE DefaultPollInterval

WatcherInit ==
    /\ pc = "idle"
    /\ ai = 1
    /\ incidents = <<>>
    /\ idx = 0
    /\ last_seen_ids = [s \in Sources |-> {}]
    /\ interval = 0
    /\ slept = 0
    /\ pass = "baseline"
    /\ status = [s \in Sources |-> "pending"]
    /\ lastRun = [s \in Sources |-> "pending"]
    /\ fetched = [s \in Sources |-> <<>>]
    /\ same = [s \in Sources |-> FALSE]
    /\ seenAtStart = [s \in Sources |-> {}]
    /\ cycleEmitted = [s \in Sources |-> <<>>]
    /\ failed = {}
    /\ stopRequested = FALSE

\* no feed call, adapter instance, formatter, registry, page parser, raw
\* loop or extra check_incidents run in use
ExtUnused ==
    /\ rssFeed = [pc |-> "unused"]
    /\ openai = [pc |-> "unused"]
    /\ fmt = [pc |-> "unused"]
    /\ adapters = [pc |-> "unused"]
    /\ parser = [pc |-> "unused"]
    /\ turn = [pc |-> "unused"]
    /\ tasks = [pc |-> "unused"]

Init ==
    /\ WatcherInit
    /\ rss = RssUnused
    /\ ExtUnused

\* start_monitoring up to the first await of show_initial_status
StartMonitoring ==
    /\ pc = "idle"
    /\ \E arg \in PollIntervalArgs : interval' = IntervalOf(arg)
    /\ pc' = "baseline_fetch"
    /\ ai' = 1
    /\ UNCHANGED <<incidents, idx, last_seen_ids, slept, pass, status, lastRun,
                   fetched, same, seenAtStart, cycleEmitted, failed,
                   stopRequested, rss, ext>>

\* The coroutine is done with adapter i of the current pass, with final
\* status st for it and dedup state seen: it goes on to the next adapter,
\* or ends the pass.  The baseline pass is followed at once by the first
\* check_incidents; a check_incidents is followed by the sleep.
Advance(i, st, raised, seen) ==
    LET nxt == AfterSource(i, raised)
        final == [status EXCEPT ![Registry[i]] = st]
    IN
    /\ last_seen_ids' = seen
    /\ incidents' = <<>>
    /\ idx' = 0
    /\ IF nxt <= NumAdapters
       THEN /\ ai' = nxt
            /\ pc' = IF pass = "baseline" THEN "baseline_fetch" ELSE "fetch"
            /\ status' = final
            /\ UNCHANGED <<slept, pass, lastRun, seenAtStart>>
       ELSE IF pass = "baseline"
       THEN /\ ai' = 1
            /\ pc' = "fetch"
            /\ pass' = "first"
            /\ lastRun' = final
            /\ status' = [s \in Sources |-> "pending"]
            /\ seenAtStart' = seen
            /\ UNCHANGED slept
       ELSE /\ ai' = ai
            /\ pc' = AfterCheck
            /\ slept' = interval
            /\ status' = final
            /\ UNCHANGED <<pass, lastRun, seenAtStart>>

(***************************************************************************)
(* show_initial_status: the baseline pass                                  *)
(***************************************************************************)
\* 'incidents[:3]', the incidents the baseline pass iterates
Shown(list) == Take(list, InitialShown)

\* a baseline pass that marks the whole shown list when the fetch returns
BaselineFetchReturnMarkingAll ==
    /\ pc = "baseline_fetch"
    /\ \E feed \in FeedLists :
        LET s == Registry[ai]
            list == Take(feed, FetchLimit)
        IN
        /\ fetched' = [fetched EXCEPT ![s] = list]
        /\ IF Shown(list) = <<>>
           THEN Advance(ai, "ok", FALSE, last_seen_ids)
           ELSE /\ last_seen_ids' = [last_seen_ids EXCEPT
                                       ![s] = @ \cup IdsOf(Shown(list))]
                /\ incidents' = Shown(list)
                /\ idx' = 1
                /\ pc' = "baseline_process"
                /\ UNCHANGED <<ai, slept, pass, status, lastRun, seenAtStart>>
    /\ UNCHANGED <<interval, same, cycleEmitted, failed, stopRequested, rss, ext>>

\* the await at line 86 returns the adapter's list; 'if not incidents'
\* ends the source, else the first incident is marked and its processing
\* awaited (lines 96-102)
BaselineFetchReturn ==
    /\ pc = "baseline_fetch"
    /\ \E feed \in FeedLists :
        LET s == Registry[ai]
            list == Take(feed, FetchLimit)
        IN
        /\ fetched' = [fetched EXCEPT ![s] = list]
        /\ IF Shown(list) = <<>>
           THEN Advance(ai, "ok", FALSE, last_seen_ids)
           ELSE /\ last_seen_ids' = MarkSeen(last_seen_ids, s, Shown(list)[1])
                /\ incidents' = Shown(list)
                /\ idx' = 1
                /\ pc' = "baseline_process"
                /\ UNCHANGED <<ai, slept, pass, status, lastRun, seenAtStart>>
    /\ UNCHANGED <<interval, same, cycleEmitted, failed, stopRequested, rss, ext>>

\* the await at line 86 raises: the except clause at line 117
BaselineFetchRaise ==
    /\ pc = "baseline_fetch"
    /\ Advance(ai, "fetch_failed", TRUE, last_seen_ids)
    /\ UNCHANGED <<interval, fetched, same, cycleEmitted, failed, stopRequested, rss, ext>>

\* the await at line 102 returns: the records are printed in the box (not
\* as a new update) and the loop marks the next incident, or runs out
BaselineProcessReturn ==
    /\ pc = "baseline_process"
    /\ LET s == Registry[ai] IN
       IF idx < Len(incidents)
       THEN /\ last_seen_ids' = MarkSeen(last_seen_ids, s, incidents[idx + 1])
            /\ idx' = idx + 1
            /\ UNCHANGED <<pc, ai, incidents, slept, pass, status, lastRun, seenAtStart>>
       ELSE Advance(ai, "ok", FALSE, last_seen_ids)
    /\ UNCHANGED <<interval, fetched, same, cycleEmitted, failed, stopRequested, rss, ext>>

\* the await at line 102 raises: the except clause at line 117 ends the
\* source, the rest of its list is not looked at
BaselineProcessRaise ==
    /\ pc = "baseline_process"
    /\ failed' = failed \cup {<<Registry[ai], incidents[idx]>>}
    /\ Advance(ai, "process_failed", TRUE, last_seen_ids)
    /\ UNCHANGED <<interval, fetched, same, cycleEmitted, stopRequested, rss, ext>>

(***************************************************************************)
(* check_incidents: one poll cycle                                         *)
(***************************************************************************)
\* a loop that marks the rest of the list before it awaits the processing
IterateMarkingRest(s, list, from) ==
    LET j == NextNovel(list, from, last_seen_ids[s]) IN
    IF j = 0
    THEN Advance(ai, "ok", FALSE, last_seen_ids)
    ELSE /\ last_seen_ids' = [last_seen_ids EXCEPT
                                 ![s] = @ \cup {list[k] : k \in j..Len(list)}]
         /\ incidents' = list
         /\ idx' = j
         /\ pc' = "process"
         /\ UNCHANGED <<ai, slept, pass, status, lastRun, seenAtStart>>

\* the for-loop over 'incidents' of source s resumes at position 'from':
\* seen incidents are skipped; the first novel one is marked seen and its
\* processing awaited; when the list runs out the source is done
Iterate(s, list, from) ==
    LET j == NextNovel(list, from, last_seen_ids[s]) IN
    IF j = 0
    THEN Advance(ai, "ok", FALSE, last_seen_ids)
    ELSE /\ last_seen_ids' = MarkSeen(last_seen_ids, s, list[j])
         /\ incidents' = list
         /\ idx' = j
         /\ pc' = "process"
         /\ UNCHANGED <<ai, slept, pass, status, lastRun, seenAtStart>>

\* the await at line 41 returns the adapter's list
FetchReturn ==
    /\ pc = "fetch"
    /\ \E feed \in FeedLists :
        LET s == Registry[ai]
            list == Take(feed, FetchLimit)
        IN
        /\ fetched' = [fetched EXCEPT ![s] = list]
        /\ same' = [same EXCEPT ![s] =
                      /\ pass = "later"
                      /\ lastRun[s] \in {"ok", "process_failed"}
                      /\ list = fetched[s]]
        /\ Iterate(s, list, 1)
    /\ UNCHANGED <<interval, cycleEmitted, failed, stopRequested, rss, ext>>

\* the await at line 41 raises: the except clause at line 55
FetchRaise ==
    /\ pc = "fetch"
    /\ Advance(ai, "fetch_failed", TRUE, last_seen_ids)
    /\ UNCHANGED <<interval, fetched, same, cycleEmitted, failed, stopRequested, rss, ext>>

\* the await at line 49 returns the processed records (never an empty list
\* for the adapters of the registry): they are printed as a NEW UPDATE and
\* the for-loop goes on
ProcessReturn ==
    /\ pc = "process"
    /\ LET s == Registry[ai] IN
       /\ cycleEmitted' = [cycleEmitted EXCEPT ![s] = Append(@, incidents[idx])]
       /\ Iterate(s, incidents, idx + 1)
    /\ UNCHANGED <<interval, fetched, same, failed, stopRequested, rss, ext>>

\* the await at line 49 raises: the except clause at line 55 ends the
\* source, the rest of its list is not looked at in this cycle
ProcessRaise ==
    /\ pc = "process"
    /\ failed' = failed \cup {<<Registry[ai], incidents[idx]>>}
    /\ Advance(ai, "process_failed", TRUE, last_seen_ids)
    /\ UNCHANGED <<interval, fetched, same, cycleEmitted, stopRequested, rss, ext>>

\* asyncio.sleep returns: 'while True' calls check_incidents again, which
\* runs up to the fetch of the first adapter
WakeUp ==
    /\ pc = "sleep"
    /\ pc' = AfterSleep
    /\ ai' = 1
    /\ pass' = "later"
    /\ lastRun' = status
    /\ status' = [s \in Sources |-> "pending"]
    /\ same' = [s \in Sources |-> FALSE]
    /\ seenAtStart' = last_seen_ids
    /\ cycleEmitted' = [s \in Sources |-> <<>>]
    /\ UNCHANGED <<incidents, idx, last_seen_ids, interval, slept, fetched,
                   failed, stopRequested, rss, ext>>

\* the task is cancelled from outside (asyncio.run on a shutdown signal):
\* CancelledError is raised at the await the coroutine is suspended in; it
\* is a BaseException, so no 'except Exception' clause catches it and it
\* ends start_monitoring.  The coroutine's locals are gone, the Watcher
\* object keeps last_seen_ids; nothing happens afterwards, so the record of
\* the interrupted pass is dropped.
Cancel ==
    /\ pc \in {"baseline_fetch", "baseline_process", "fetch", "process", "sleep"}
    /\ pc' = "cancelled"
    /\ ai' = 1
    /\ incidents' = <<>>
    /\ idx' = 0
    /\ interval' = 0
    /\ slept' = 0
    /\ pass' = "later"
    /\ status' = [s \in Sources |-> "pending"]
    /\ lastRun' = [s \in Sources |-> "pending"]
    /\ fetched' = [s \in Sources |-> <<>>]
    /\ same' = [s \in Sources |-> FALSE]
    /\ seenAtStart' = last_seen_ids
    /\ cycleEmitted' = [s \in Sources |-> <<>>]
    /\ failed' = {}
    /\ UNCHANGED <<last_seen_ids, stopRequested, rss, ext>>

Next ==
    \/ StartMonitoring
    \/ BaselineFetchReturn
    \/ BaselineFetchRaise
    \/ BaselineProcessReturn
    \/ BaselineProcessRaise
    \/ FetchReturn
    \/ FetchRaise
    \/ ProcessReturn
    \/ ProcessRaise
    \/ WakeUp
    \/ Cancel

Spec == Init /\ [][Next]_vars

(***************************************************************************)
(* The same program with the scheduling of the asyncio event loop: a       *)
(* coroutine whose awaited call is over is resumed.  Every awaited call    *)
(* ends, by returning or by raising (the HTTP calls carry a timeout, the   *)
(* sleep is finite), and asyncio.run starts start_monitoring.  Whether a   *)
(* call returns or raises, and whether the task is cancelled, is left to   *)
(* the environment.                                                        *)
(***************************************************************************)
Resume ==
    \/ StartMonitoring
    \/ BaselineFetchReturn
    \/ BaselineFetchRaise
    \/ BaselineProcessReturn
    \/ BaselineProcessRaise
    \/ FetchReturn
    \/ FetchRaise
    \/ ProcessReturn
    \/ ProcessRaise
    \/ WakeUp

LiveSpec == Init /\ [][Next]_vars /\ WF_vars(Resume)

(***************************************************************************)
(* A caller asks the watcher to stop, as tests/test_core/test_watcher.py   *)
(* does with watcher.stop_monitoring().  The Watcher class defines neither *)
(* stop_monitoring nor is_running and its loop is 'while True': the call   *)
(* raises AttributeError in the caller and changes nothing of the watcher. *)
(***************************************************************************)
StopMonitoring ==
    /\ pc \in {"sleep", "fetch"}
    /\ ~stopRequested
    /\ stopRequested' = TRUE
    /\ UNCHANGED <<wvars, rss, ext>>

StopNext == Next \/ StopMonitoring

StopSpec == Init /\ [][StopNext]_vars

(***************************************************************************)
(* Claims about the Watcher                                                *)
(***************************************************************************)
\* list restricted to the ids that are not in seenSet, each id once, at
\* its first position
NovelOnce(list, seenSet) ==
    LET keep == {i \in 1..Len(list) :
                    /\ list[i] \notin seenSet
                    /\ \A j \in 1..(i - 1) : list[j] # list[i]}
    IN  [k \in 1..Cardinality(keep) |->
            list[CHOOSE i \in keep : Cardinality({j \in keep : j < i}) = k - 1]]

C2_EmitsExactlyNovel ==
    \A s \in Sources :
        (pass # "baseline" /\ status[s] = "ok") =>
            cycleEmitted[s] = NovelOnce(fetched[s], seenAtStart[s])

\* baseline [x1], then the first cycle fetches [x1, x2] and announces x2 only
C2_Witness ==
    /\ pass = "first"
    /\ lastRun["openai"] = "ok"
    /\ seenAtStart["openai"] = {"x1"}
    /\ status["openai"] = "ok"
    /\ fetched["openai"] = <<"x1", "x2">>
    /\ cycleEmitted["openai"] = <<"x2">>

\* C3: an incident whose processing is awaited is already in its source's
\* seen set, and an id whose processing has raised is never processed again
\* nor announced.
C3_MarkedBeforeProcessing ==
    /\ pc \in {"process", "baseline_process"} =>
          /\ incidents[idx] \in last_seen_ids[Registry[ai]]
          /\ <<Registry[ai], incidents[idx]>> \notin failed
    /\ \A s \in Sources : \A i \in 1..Len(cycleEmitted[s]) :
          <<s, cycleEmitted[s][i]>> \notin failed

\* a later cycle has fetched an id whose processing raised before, has gone
\* through the whole list and has not announced it
C3_Witness ==
    \E s \in Sources : \E id \in Ids :
        /\ <<s, id>> \in failed
        /\ pass = "later"
        /\ status[s] = "ok"
        /\ id \in IdsOf(fetched[s])
        /\ id \notin IdsOf(cycleEmitted[s])

\* the state in which show_initial_status has just returned
BaselineDone ==
    /\ pass = "first"
    /\ pc = "fetch"
    /\ ai = 1
    /\ \A s \in Sources : status[s] = "pending"

\* C4 as stated: when the baseline pass is over, every incident it fetched
\* for a source (the first 3) is in that source's seen set.
C4_BaselineMarksAllFetched ==
    BaselineDone =>
        \A s \in Sources : IdsOf(Shown(fetched[s])) \subseteq last_seen_ids[s]

\* C5: when check_incidents is over every source has been fetched in it,
\* whatever failed for the other sources, and each source that did not fail
\* has announced its novel incidents; the failure has been caught.
C5_FailureIsolatedPerSource ==
    pc \notin {"idle", "baseline_fetch", "baseline_process", "fetch", "process", "cancelled"} =>
        /\ pc = "sleep"
        /\ \A s \in Sources :
              /\ status[s] # "pending"
              /\ status[s] = "ok" =>
                    cycleEmitted[s] = NovelOnce(fetched[s], seenAtStart[s])

\* the first source failed, the second one was still fetched and announced
\* an incident in the same cycle
C5_Witness ==
    /\ pc = "sleep"
    /\ status[Registry[1]] \in {"fetch_failed", "process_failed"}
    /\ status[Registry[2]] = "ok"
    /\ cycleEmitted[Registry[2]] # <<>>

\* C6: the loop does not end on its own.  A check_incidents that ends is
\* followed by asyncio.sleep(interval), with the interval fixed when
\* monitoring started; the sleep is followed by the next check_incidents;
\* only the cancellation ends the coroutine, and a step is always possible.
C6_LoopNeverEnds ==
    /\ [](pc \notin {"idle", "cancelled"} => ENABLED (Next /\ pc' # "cancelled"))
    /\ [][/\ (pc \in {"fetch", "process"} /\ pc' \notin {"fetch", "process", "cancelled"})
             => (pc' = "sleep" /\ slept' = interval /\ interval' = interval)
          /\ (pc = "sleep" /\ pc' # "cancelled")
             => (pc' = "fetch" /\ ai' = 1 /\ interval' = interval)
          /\ (pc \notin {"idle"} /\ pc' # "cancelled") => interval' = interval]_vars

\* a cycle in which a source failed has been followed by the sleep and the
\* next cycle has started
C6_Witness ==
    /\ pass = "later"
    /\ pc = "fetch"
    /\ slept = interval
    /\ slept = 5
    /\ \E s \in Sources : lastRun[s] \in {"fetch_failed", "process_failed"}

\* C7 as stated: once a stop has been requested during the sleep or a
\* fetch, no further cycle starts and no further incident is announced.
C7_StopEndsLoop ==
    [][stopRequested =>
          /\ ~(pc = "sleep" /\ pc' = "fetch")
          /\ \A s \in Sources : Len(cycleEmitted'[s]) <= Len(cycleEmitted[s])]_vars

\* C20: every source's seen set starts empty, and no step of the watcher,
\* baseline pass, poll cycle, failure or cancellation, removes an id from it.
C20_SeenSetsOnlyGrow ==
    /\ \A s \in Sources : last_seen_ids[s] = {}
    /\ [][\A s \in Sources : last_seen_ids[s] \subseteq last_seen_ids'[s]]_vars

\* a source has both ids in its seen set, in a poll cycle, after a
\* processing failure
C20_Witness ==
    /\ pass \in {"first", "later"}
    /\ failed # {}
    /\ \E s \in Sources : last_seen_ids[s] = Ids

\* C26: a step of the watcher changes the seen set of no source but the one
\* it is fetching or processing, and what a source announces in a cycle is
\* decided by its own seen set: an id of its list is announced exactly when
\* that set did not hold it, whatever the other sources have seen.
C26_SeenSetsIsolated ==
    /\ [][\A s \in Sources :
            last_seen_ids'[s] # last_seen_ids[s] =>
                /\ pc \in {"fetch", "process", "baseline_fetch", "baseline_process"}
                /\ s = Registry[ai]]_vars
    /\ [](\A s \in Sources :
            (pass # "baseline" /\ status[s] = "ok") =>
                \A id \in IdsOf(fetched[s]) :
                    id \in IdsOf(cycleEmitted[s]) <=> id \notin seenAtStart[s])

\* both sources fetched x1 in this cycle; openai had seen it and does not
\* announce it, bolna had not and announces it
C26_Witness ==
    /\ pass # "baseline"
    /\ status["openai"] = "ok"
    /\ status["bolna"] = "ok"
    /\ "x1" \in seenAtStart["openai"]
    /\ "x1" \notin seenAtStart["bolna"]
    /\ "x1" \in IdsOf(fetched["openai"])
    /\ "x1" \notin IdsOf(cycleEmitted["openai"])
    /\ "x1" \in IdsOf(cycleEmitted["bolna"])

\* the elements of part appear in list in the same order
InOrderOf(part, list) ==
    \A i, j \in 1..Len(part) :
        i < j => \E a, b \in 1..Len(list) :
                    a < b /\ list[a] = part[i] /\ list[b] = part[j]

\* C27: a poll cycle goes through the sources in registration order, one
\* fetch each: after the fetch or the processing of a source comes the
\* fetch of the next source, never of the same one again, failed or not, and
\* the sleep comes after the last source; a new cycle starts again at the
\* first source.  What a source announces is in the order of its list.
C27_OneFetchPerSourceInOrder ==
    /\ [][/\ (pc \in {"fetch", "process"} /\ pc' = "fetch") => ai' = ai + 1
          /\ (pc \in {"fetch", "process"} /\ pc' = "process") =>
                (ai' = ai /\ idx' > idx)
          /\ (pc \in {"fetch", "process"} /\ pc' = "sleep") => ai = NumAdapters
          /\ (pc = "sleep" /\ pc' \notin {"sleep", "cancelled"}) =>
                (pc' = "fetch" /\ ai' = 1)]_vars
    /\ [](/\ (pass # "baseline" /\ pc \in {"fetch", "process"}) =>
                \A i \in 1..NumAdapters :
                    (i < ai) <=> (status[Registry[i]] # "pending")
          /\ pc = "sleep" => \A s \in Sources : status[s] # "pending"
          /\ \A s \in Sources : InOrderOf(cycleEmitted[s], fetched[s]))

\* the fetch of openai failed in the previous cycle; in this one it was
\* fetched again and its two incidents were announced in list order
C27_Witness ==
    /\ pc = "sleep"
    /\ lastRun["openai"] = "fetch_failed"
    /\ status["openai"] = "ok"
    /\ Len(cycleEmitted["openai"]) = 2
    /\ cycleEmitted["openai"] = fetched["openai"]

\* C28: a (source, id) pair is announced at most once over the run, and an
\* id marked in the baseline pass is never announced.  An announcement is of
\* an id that is already marked, that the source's seen set did not hold
\* when the pass started and that this pass has not announced; the seen
\* set keeps every id marked or announced, and each pass starts from all of
\* it.
C28_AnnouncedAtMostOnce ==
    /\ [][\A s \in Sources :
            /\ \A k \in (Len(cycleEmitted[s]) + 1)..Len(cycleEmitted'[s]) :
                  /\ cycleEmitted'[s][k] \notin seenAtStart[s]
                  /\ cycleEmitted'[s][k] \notin IdsOf(cycleEmitted[s])
                  /\ cycleEmitted'[s][k] \in last_seen_ids[s]
            /\ last_seen_ids[s] \subseteq last_seen_ids'[s]
            /\ seenAtStart'[s] # seenAtStart[s] =>
                  seenAtStart'[s] = last_seen_ids[s]]_vars
    /\ [](\A s \in Sources :
            /\ seenAtStart[s] \subseteq last_seen_ids[s]
            /\ IdsOf(cycleEmitted[s]) \subseteq last_seen_ids[s]
            /\ pass = "baseline" => cycleEmitted[s] = <<>>)

\* x1 was marked in the baseline pass and fetched again with x2 in a later
\* cycle, after x2 had been announced: nothing is announced
C28_Witness ==
    /\ pass = "later"
    /\ pc = "sleep"
    /\ seenAtStart["openai"] = {"x1", "x2"}
    /\ fetched["openai"] = <<"x2", "x1">>
    /\ status["openai"] = "ok"
    /\ cycleEmitted["openai"] = <<>>

\* the list the pass iterates for source s: the first 3 in the baseline pass
Iterated(s) == IF pass = "baseline" THEN Shown(fetched[s]) ELSE fetched[s]

\* C29: when the processing of an incident raises, the incidents after it in
\* the source's list are neither marked seen nor announced in that pass: the
\* raising step changes no seen set and announces nothing; for the rest of
\* the pass the source's seen set is what it was when the pass started plus
\* the list up to the incident that raised, and what it announced comes
\* before that incident; the next pass starts from the seen sets as they
\* are, so the incidents after the one that raised are still novel in it.
C29_RestSkippedUnmarked ==
    /\ [][(/\ pc \in {"process", "baseline_process"}
           /\ \/ status'[Registry[ai]] = "process_failed"
              \/ pass # pass' /\ lastRun'[Registry[ai]] = "process_failed")
          => /\ last_seen_ids' = last_seen_ids
             /\ cycleEmitted' = cycleEmitted
             /\ pc' \notin {"process", "baseline_process"}]_vars
    /\ [](\A s \in Sources :
            status[s] = "process_failed" =>
                \E k \in 1..Len(Iterated(s)) :
                    /\ <<s, Iterated(s)[k]>> \in failed
                    /\ last_seen_ids[s] =
                          seenAtStart[s] \cup IdsOf(SubSeq(Iterated(s), 1, k))
                    /\ IdsOf(cycleEmitted[s]) \subseteq
                          IdsOf(SubSeq(Iterated(s), 1, k - 1))
                    /\ Iterated(s)[k] \notin IdsOf(cycleEmitted[s]))
    /\ [][\A s \in Sources :
            (pass' # pass \/ seenAtStart'[s] # seenAtStart[s]) =>
                /\ seenAtStart'[s] = last_seen_ids[s]
                /\ last_seen_ids'[s] = last_seen_ids[s]]_vars

\* a poll cycle is over in which the first incident of openai's list raised
\* and the second, never seen so far, follows it
C29_Witness ==
    /\ pass \in {"first", "later"} /\ pc = "sleep"
    /\ status["openai"] = "process_failed"
    /\ fetched["openai"] = <<"x1", "x2">>
    /\ seenAtStart["openai"] = {}
    /\ last_seen_ids["openai"] = {"x1"}

\* the fetch of source s has returned in the poll cycle under way
FetchSucceeded(s) ==
    /\ pass \in {"first", "later"}
    /\ \/ status[s] \in {"ok", "process_failed"}
       \/ pc = "process" /\ Registry[ai] = s

\* C30: under the scheduling of LiveSpec, when the fetch of source s returns
\* again and again, an id x that a poll cycle finds outside s's seen set is
\* later announced for s, unless a fetch of s returns without x or the
\* processing of x itself raises.  In each poll cycle whose fetch returned,
\* an id of the list that was not seen when the cycle started has been
\* announced when the source is done, unless the processing of an incident
\* at or before it raised in that cycle; that incident was not seen when
\* the cycle started and is seen now, so it cannot hold x up again.
C30_NovelEventuallyAnnounced ==
    /\ [](\A s \in Sources : \A x \in Ids :
            (/\ pass \in {"first", "later"}
             /\ status[s] \in {"ok", "process_failed"}
             /\ x \in IdsOf(fetched[s]) \ seenAtStart[s])
            => \/ x \in IdsOf(cycleEmitted[s])
               \/ /\ status[s] = "process_failed"
                  /\ \E k \in 1..Len(fetched[s]) :
                        /\ fetched[s][k] \notin seenAtStart[s]
                        /\ fetched[s][k] \in last_seen_ids[s]
                        /\ <<s, fetched[s][k]>> \in failed
                        /\ x \notin IdsOf(SubSeq(fetched[s], 1, k - 1)))
    /\ \A s \in Sources : \A x \in Ids :
            ([]<>FetchSucceeded(s)) =>
                ((pass \in {"first", "later"} /\ x \notin last_seen_ids[s])
                 ~> \/ x \in IdsOf(cycleEmitted[s])
                    \/ FetchSucceeded(s) /\ x \notin IdsOf(fetched[s])
                    \/ <<s, x>> \in failed)

\* x2 is announced for openai in the cycle after the one in which x1, ahead
\* of it in the list, raised
C30_Witness ==
    /\ pass = "later"
    /\ lastRun["openai"] = "process_failed"
    /\ <<"openai", "x1">> \in failed
    /\ <<"openai", "x2">> \notin failed
    /\ fetched["openai"] = <<"x1", "x2">>
    /\ seenAtStart["openai"] = {"x1"}
    /\ cycleEmitted["openai"] = <<"x2">>

extract_services_from_html(description) ==
    IF description.none
    THEN <<>>
    ELSE LET hits == SelectSeq(description.items, LAMBDA it : it.status)
         IN  [i \in 1..Len(hits) |-> hits[i].name]

\* RSSAdapter._format_incidents: one record per service; a name with a
\* " - " is split once into group and component, any other name is the
\* component and the adapter's name the group
SplitAtLast(adapter, services, title, pub_date) ==
    [i \in 1..Len(services) |->
        [group |-> IF Len(services[i]) >= 2
                   THEN SubSeq(services[i], 1, Len(services[i]) - 1) ELSE <<adapter>>,
         component |-> <<services[i][Len(services[i])]>>,
         time_created |-> pub_date,
         status_message |-> title]]
_format_incidents(adapter, services, title, pub_date) ==
    [i \in 1..Len(services) |->
        [group |-> IF Len(services[i]) >= 2 THEN <<services[i][1]>> ELSE <<adapter>>,
         component |-> IF Len(services[i]) >= 2 THEN Tail(services[i]) ELSE services[i],
         time_created |-> pub_date,
         status_message |-> title]]

\* "incident.get('title', '').lower()" of the two overriding fallbacks: the
\* key is always present, so a None title is not replaced by '' and has no
\* lower(): AttributeError.  The base class does not read the title.
FallbackRaises(adapter, title) == adapter \in {"Bolna", "Claude"} /\ title.none

\* _extract_fallback_services of BolnaAdapter, ClaudeAdapter and RSSAdapter
_extract_fallback_services(adapter, title) ==
    CASE adapter = "Bolna" ->
            IF "twilio" \in title.kws THEN << <<"Twilio">> >>
            ELSE IF "voice" \in title.kws THEN << <<"Voice Service">> >>
            ELSE IF "api" \in title.kws THEN << <<"API">> >>
            ELSE IF "webhook" \in title.kws THEN << <<"Webhooks">> >>
            ELSE << <<"Bolna Platform">> >>
      [] adapter = "Claude" ->
            IF "api" \in title.kws THEN << <<"Claude API">> >>
            ELSE IF "claude.ai" \in title.kws \/ "web" \in title.kws THEN << <<"claude.ai">> >>
            ELSE IF "platform" \in title.kws THEN << <<"platform.claude.com">> >>
            ELSE IF "console" \in title.kws THEN << <<"Console">> >>
            ELSE << <<"Claude Service">> >>
      [] OTHER -> << <<"General Service">> >>

\* 'if services_from_rss:' at line 57
EmbeddedNeverDecides(services) == FALSE

EmbeddedDecides(services) == services # <<>>

\* 'if services_from_page:' at line 65
PageDecides(services) == services # <<>>

\* 'if self.INCIDENT_PARSER_TYPE and link and link != "N/A":' at line 62
UsesDetailPageWithParser(adapter, link) == Truthy(ParserType(adapter))

UsesDetailPage(adapter, link) ==
    Truthy(ParserType(adapter)) /\ Truthy(link) /\ link # "N/A"

\* 'except Exception as e: pass' at lines 67-69: whatever the page fetch or
\* the parser raises is dropped
SwallowsFetchErrorOnly(cause) == cause = "fetch_error"

SwallowsPageError(cause) == TRUE

\* 'return self._format_incidents(services, title, pub_date)'
Return(r, services) ==
    [r EXCEPT !.pc = "returned",
              !.result = _format_incidents(r.adapter, services, r.title, r.pub_date)]

\* strategy 3, lines 72-73: _extract_fallback_services has no await of its
\* own, it runs in the same step as the code before it
Fallback(r) ==
    LET q == [r EXCEPT !.consulted = Append(@, "keyword")] IN
    IF FallbackRaises(q.adapter, q.title)
    THEN [q EXCEPT !.pc = "raised", !.raisedBy = "keyword"]
    ELSE Return(q, _extract_fallback_services(q.adapter, q.title))

\* a call of process_incident_async
RssCalls ==
    {[RssUnused EXCEPT !.pc = "called", !.adapter = a, !.title = ti, !.link = l,
                       !.description = d, !.pub_date = pd] :
        a \in RssAdapters, ti \in Titles, l \in Links, d \in Descriptions, pd \in PubDates}

RssInit ==
    /\ WatcherInit
    /\ rss \in RssCalls
    /\ ExtUnused

\* strategy 1 finds services in the description and returns them
EmbeddedWins ==
    /\ rss.pc = "called"
    /\ EmbeddedDecides(extract_services_from_html(rss.description))
    /\ rss' = Return([rss EXCEPT !.consulted = <<"embedded">>],
                     extract_services_from_html(rss.description))
    /\ UNCHANGED <<wvars, stopRequested, ext>>

\* strategy 1 finds nothing and the detail page is requested: the await at
\* line 64
EmbeddedThenPage ==
    /\ rss.pc = "called"
    /\ ~EmbeddedDecides(extract_services_from_html(rss.description))
    /\ UsesDetailPage(rss.adapter, rss.link)
    /\ rss' = [rss EXCEPT !.pc = "page_fetch", !.consulted = <<"embedded", "page">>,
                          !.pageFetches = @ + 1]
    /\ UNCHANGED <<wvars, stopRequested, ext>>

\* strategy 1 finds nothing and strategy 2 does not apply
EmbeddedThenFallback ==
    /\ rss.pc = "called"
    /\ ~EmbeddedDecides(extract_services_from_html(rss.description))
    /\ ~UsesDetailPage(rss.adapter, rss.link)
    /\ rss' = Fallback([rss EXCEPT !.consulted = <<"embedded">>])
    /\ UNCHANGED <<wvars, stopRequested, ext>>

\* the await at line 64 returns what the page parser found
PageReturn ==
    /\ rss.pc = "page_fetch"
    /\ \E services \in PageLists :
        LET r == [rss EXCEPT !.page = "ok", !.pageServices = services] IN
        rss' = IF PageDecides(services) THEN Return(r, services) ELSE Fallback(r)
    /\ UNCHANGED <<wvars, stopRequested, ext>>

\* the await at line 64 raises: the page could not be fetched
\* (fetch_incident_page_async) or not be parsed
PageRaise ==
    /\ rss.pc = "page_fetch"
    /\ \E cause \in {"fetch_error", "parse_error"} :
        LET r == [rss EXCEPT !.page = cause] IN
        rss' = IF SwallowsPageError(cause)
               THEN Fallback(r)
               ELSE [r EXCEPT !.pc = "raised", !.raisedBy = "page"]
    /\ UNCHANGED <<wvars, stopRequested, ext>>

RssNext ==
    \/ EmbeddedWins
    \/ EmbeddedThenPage
    \/ EmbeddedThenFallback
    \/ PageReturn
    \/ PageRaise

RssSpec == RssInit /\ [][RssNext]_vars

(***************************************************************************)
(* Claims about the extraction cascade                                     *)
(***************************************************************************)
\* the records process_incident_async makes of a list of services
Formatted(services) == _format_incidents(rss.adapter, services, rss.title, rss.pub_date)

\* C8: the strategies are consulted in the order embedded, page, keyword,
\* and the first non-empty list is returned alone: services embedded in the
\* description are returned without any page fetch, services found on the
\* page are returned without the keyword fallback, and what is returned is
\* the list of the last strategy consulted, never a merge.
C8_FirstStrategyWins ==
    LET embedded == extract_services_from_html(rss.description) IN
    /\ rss.consulted \in {<<>>, <<"embedded">>, <<"embedded", "page">>,
                          <<"embedded", "keyword">>, <<"embedded", "page", "keyword">>}
    /\ (rss.pc # "called" /\ embedded # <<>>) =>
          /\ rss.pc = "returned"
          /\ rss.consulted = <<"embedded">>
          /\ rss.pageFetches = 0
          /\ rss.result = Formatted(embedded)
    /\ rss.pageServices # <<>> =>
          /\ rss.pc = "returned"
          /\ rss.consulted = <<"embedded", "page">>
          /\ rss.result = Formatted(rss.pageServices)
    /\ (rss.pc \in {"returned", "raised"} /\ rss.consulted[Len(rss.consulted)] = "page") =>
          rss.pageServices # <<>>
    /\ (rss.pc = "returned" /\ rss.consulted[Len(rss.consulted)] = "keyword") =>
          /\ embedded = <<>>
          /\ rss.pageServices = <<>>
          /\ rss.result = Formatted(_extract_fallback_services(rss.adapter, rss.title))

\* services are embedded in the description of an incident of an adapter
\* with a page parser and a link: they are returned and no page is fetched
C8_Witness ==
    /\ rss.pc = "returned"
    /\ UsesDetailPage(rss.adapter, rss.link)
    /\ Len(extract_services_from_html(rss.description)) = 2
    /\ rss.pageFetches = 0
    /\ rss.consulted = <<"embedded">>

\* C9 as stated: when strategy 1 yields nothing and the detail page cannot
\* be fetched, process_incident_async returns a non-empty list.
C9_FallbackAlwaysReturns ==
    (/\ rss.pc \in {"returned", "raised"}
     /\ extract_services_from_html(rss.description) = <<>>
     /\ rss.page = "fetch_error")
        => (rss.pc = "returned" /\ rss.result # <<>>)

\* C10: a failure of the detail page fetch or parse is not raised to the
\* caller; the keyword fallback runs next for the same incident and its
\* services are what is returned.
C10_PageFailureSwallowed ==
    rss.page \in {"fetch_error", "parse_error"} =>
        /\ rss.raisedBy # "page"
        /\ rss.consulted = <<"embedded", "page", "keyword">>
        /\ ~FallbackRaises(rss.adapter, rss.title) =>
              /\ rss.pc = "returned"
              /\ rss.result = Formatted(_extract_fallback_services(rss.adapter, rss.title))

\* the page parser raised and the keyword fallback produced the result
C10_Witness ==
    /\ rss.page = "parse_error"
    /\ rss.pc = "returned"
    /\ rss.consulted = <<"embedded", "page", "keyword">>
    /\ Len(rss.result) = 1

\* C12 as stated: when the description embeds a non-empty list of
\* <li>Name (Status)</li> items, the services taken from it are those names
\* in document order, each once, at its first occurrence.
C12_EmbeddedNamesDeduplicated ==
    (rss.pc = "returned" /\ rss.consulted = <<"embedded">>) =>
        LET listed == SelectSeq(rss.description.items, LAMBDA it : it.status)
            names == [i \in 1..Len(listed) |-> listed[i].name]
        IN  rss.result = Formatted(NovelOnce(names, {}))

\* the keyword lists of the claim, in their order, and the sentinels
KeywordOrder(adapter) ==
    CASE adapter = "Bolna" ->
            <<[any |-> {"twilio"}, service |-> "Twilio"],
              [any |-> {"voice"}, service |-> "Voice Service"],
              [any |-> {"api"}, service |-> "API"],
              [any |-> {"webhook"}, service |-> "Webhooks"]>>
      [] adapter = "Claude" ->
            <<[any |-> {"api"}, service |-> "Claude API"],
              [any |-> {"claude.ai", "web"}, service |-> "claude.ai"],
              [any |-> {"platform"}, service |-> "platform.claude.com"],
              [any |-> {"console"}, service |-> "Console"]>>
      [] OTHER -> <<>>
Sentinel(adapter) ==
    CASE adapter = "Bolna" -> "Bolna Platform"
      [] adapter = "Claude" -> "Claude Service"
      [] OTHER -> "General Service"

\* C24 as stated: whenever the keyword fallback is reached, the call returns
\* exactly one service, that of the first keyword of the provider's list
\* found in the title, or the provider's sentinel when none is found; it
\* does not fail.
C24_FallbackFirstKeywordWins ==
    (/\ rss.pc \in {"returned", "raised"}
     /\ rss.consulted # <<>>
     /\ rss.consulted[Len(rss.consulted)] = "keyword") =>
        LET order == KeywordOrder(rss.adapter)
            hits == {i \in 1..Len(order) : order[i].any \cap rss.title.kws # {}}
            service == IF hits = {} THEN Sentinel(rss.adapter)
                       ELSE order[MinOf(hits)].service
        IN  /\ rss.pc = "returned"
            /\ Len(rss.result) = 1
            /\ rss.result[1].component = <<service>>

\* C25: for an incident without a link (None, empty or 'N/A') or an adapter
\* without a parser type, no detail page is ever fetched, and when the
\* embedded list gives nothing the keyword fallback comes right after it.
C25_NoPageWithoutLinkOrParser ==
    (/\ rss.pc # "unused"
     /\ \/ rss.link \in {PyNone, "", "N/A"}
        \/ ParserType(rss.adapter) = PyNone) =>
        /\ rss.pageFetches = 0
        /\ rss.pc # "page_fetch"
        /\ \A i \in 1..Len(rss.consulted) : rss.consulted[i] # "page"
        /\ (rss.pc \in {"returned", "raised"}
                /\ extract_services_from_html(rss.description) = <<>>) =>
              rss.consulted = <<"embedded", "keyword">>

\* a Bolna incident whose feed item had no <link> went from the embedded
\* list to the keyword fallback
C25_Witness ==
    /\ rss.pc = "returned"
    /\ rss.adapter = "Bolna"
    /\ rss.link = "N/A"
    /\ rss.pageFetches = 0
    /\ rss.consulted = <<"embedded", "keyword">>

----------------------------------------------------------------------------
(* RSSParser.fetch_rss_feed_async: the items of a feed become incidents.   *)
(* A text is the sequence of its parts between "/" (what split('/')        *)
(* returns); the text of an element without content is None.               *)

MaxRssItems == 2

\* the value of element.text for an element without content
NoText == <<>>

GuidTexts == {<<"incidents", "g1">>, <<"incidents", "">>}
LinkTexts == {<<"incidents", "l1">>, <<"incidents", "">>}
TitleTexts == {<<"Outage">>}

\* item.find(tag): the element is missing, or is there with its text
Elements(texts) ==
    {[present |-> FALSE, text |-> NoText]} \cup
    [present : {TRUE}, text : texts \cup {NoText}]

RssItems == [guid : Elements(GuidTexts), link : Elements(LinkTexts),
             title : Elements(TitleTexts)]

RssFeeds == UNION {[1..n -> RssItems] : n \in 0..MaxRssItems}

\* "element is not None and element.text"
HasText(element) == element.present /\ element.text # NoText /\ element.text # <<"">>

\* text.split('/')[-1]
LastSegment(text) == <<text[Len(text)]>>

\* x or y
PyOr(x, y) == IF x # NoText /\ x # <<"">> THEN x ELSE y

\* the id of an item: 'id': incident_id or title.text if title is not None
\* else 'unknown', which Python groups as (incident_id or title.text) if ...
IncidentId(it) ==
    LET incident_id == IF HasText(it.guid) THEN LastSegment(it.guid.text)
                       ELSE IF HasText(it.link) THEN LastSegment(it.link.text)
                       ELSE NoText
    IN  IF it.title.present THEN PyOr(incident_id, it.title.text)
        ELSE <<"unknown">>

\* element.text if element is not None else 'N/A'
TextOrNA(element) == IF element.present THEN element.text ELSE <<"N", "A">>

ParseItem(it) ==
    [id |-> IncidentId(it), title |-> TextOrNA(it.title), link |-> TextOrNA(it.link)]

\* the values of limit: none, one, and the default the watcher uses
Limits == {0, 1, FetchLimit}

\* the body of the incidents endpoint of the JSON API: data.get("incidents", [])
\* is the list of the provider, or [] when the key is missing
IncidentsPayloads ==
    [has : {TRUE}, incidents : FeedLists] \cup {[has |-> FALSE, incidents |-> <<>>]}

\* one call of fetch_latest_incidents_async(limit), of an RSS adapter (which
\* hands limit to fetch_rss_feed_async as max_items) or of the OpenAI adapter
FeedInit ==
    /\ WatcherInit
    /\ rss = RssUnused
    /\ fmt = [pc |-> "unused"]
    /\ adapters = [pc |-> "unused"]
    /\ parser = [pc |-> "unused"]
    /\ turn = [pc |-> "unused"]
    /\ tasks = [pc |-> "unused"]
    /\ \/ /\ rssFeed \in [pc : {"fetching"}, items : RssFeeds, limit : Limits,
                            incidents : {<<>>}]
          /\ openai = [pc |-> "unused"]
       \/ /\ rssFeed = [pc |-> "unused"]
          /\ openai \in [pc : {"fetching"}, data : IncidentsPayloads, limit : Limits,
                           latest : {<<>>}]

\* the response is read and parsed; the first max_items items are converted
FeedReturn ==
    /\ rssFeed.pc = "fetching"
    /\ LET items == Take(rssFeed.items, rssFeed.limit)
       IN  rssFeed' = [rssFeed EXCEPT !.pc = "returned",
                       !.incidents = [i \in 1..Len(items) |-> ParseItem(items[i])]]
    /\ UNCHANGED <<wvars, stopRequested, rss, openai, fmt, adapters, parser,
                   turn, tasks>>

\* the request fails, the status is an error or the body is not XML
FeedRaise ==
    /\ rssFeed.pc = "fetching"
    /\ rssFeed' = [rssFeed EXCEPT !.pc = "raised"]
    /\ UNCHANGED <<wvars, stopRequested, rss, openai, fmt, adapters, parser,
                   turn, tasks>>

\* OpenAIAdapter.fetch_latest_incidents_async returns incidents[:limit]
FetchLatestReturn ==
    /\ openai.pc = "fetching"
    /\ LET incidents_ == IF openai.data.has THEN openai.data.incidents ELSE <<>>
       IN  openai' = [openai EXCEPT !.pc = "returned",
                                    !.latest = Take(incidents_, openai.limit)]
    /\ UNCHANGED <<wvars, stopRequested, rss, rssFeed, fmt, adapters, parser,
                   turn, tasks>>

\* the request of the incidents endpoint fails
FetchLatestRaise ==
    /\ openai.pc = "fetching"
    /\ openai' = [openai EXCEPT !.pc = "raised"]
    /\ UNCHANGED <<wvars, stopRequested, rss, rssFeed, fmt, adapters, parser,
                   turn, tasks>>

FeedNext == FeedReturn \/ FeedRaise \/ FetchLatestReturn \/ FetchLatestRaise

FeedSpec == FeedInit /\ [][FeedNext]_vars

\* C11 as stated: the id of every incident of a feed comes from the GUID if
\* the item has one, else from the last path segment of the link, else is
\* the title text; with a GUID and a link it is the GUID-derived value.
C11_IdFromGuidThenLinkThenTitle ==
    rssFeed.pc = "returned" =>
        \A i \in 1..Len(rssFeed.incidents) :
            LET it == rssFeed.items[i]
            IN  rssFeed.incidents[i].id =
                    IF HasText(it.guid) THEN LastSegment(it.guid.text)
                    ELSE IF HasText(it.link) THEN LastSegment(it.link.text)
                    ELSE it.title.text

\* C21: fetch_latest_incidents_async(limit) returns at most limit incidents,
\* and they are the first limit entries of the provider's list, in the
\* provider's order.
C21_FetchReturnsPrefix ==
    /\ rssFeed.pc = "returned" =>
          /\ Len(rssFeed.incidents) <= rssFeed.limit
          /\ Len(rssFeed.incidents) = MinOf({rssFeed.limit, Len(rssFeed.items)})
          /\ \A i \in 1..Len(rssFeed.incidents) :
                /\ rssFeed.incidents[i].title = TextOrNA(rssFeed.items[i].title)
                /\ rssFeed.incidents[i].link = TextOrNA(rssFeed.items[i].link)
    /\ openai.pc = "returned" =>
          /\ Len(openai.latest) <= openai.limit
          /\ Len(openai.latest) = MinOf({openai.limit, Len(openai.data.incidents)})
          /\ \A i \in 1..Len(openai.latest) : openai.latest[i] = openai.data.incidents[i]

\* a list of two different incidents has been cut to its first one
C21_Witness ==
    /\ openai.pc = "returned"
    /\ openai.limit = 1
    /\ Len(openai.data.incidents) = 2
    /\ openai.data.incidents[1] # openai.data.incidents[2]
    /\ openai.latest = <<openai.data.incidents[1]>>

----------------------------------------------------------------------------
(* format_incident (core/formatter.py).  A timestamp string is the         *)
(* sequence of its parts: <<"2025-11-03", "T", "14:32:00", "Z">> is         *)
(* "2025-11-03T14:32:00Z".  NoText is None.  A dict is a record; a key the  *)
(* dict does not have holds Absent.                                         *)

Absent == "<absent>"

Dates == {"2025-11-03", "2025-13-45"}
Times == {"14:32:00", "25:61:00"}
Zones == {"Z", "+00:00", "+05:30"}

\* the dates and times of day that exist
ValidDates == {"2025-11-03"}
ValidTimes == {"14:32:00"}

\* the strings an adapter passes as time_created: a created_at of the JSON
\* API, a pubDate of a feed, or 'N/A'
TimeStrings ==
    {<<d>> : d \in Dates} \cup
    {<<d, "T", ti>> : d \in Dates, ti \in Times} \cup
    {<<d, "T", ti, z>> : d \in Dates, ti \in Times, z \in Zones} \cup
    {<<"Mon, 03 Nov 2025 14:32:00 GMT">>, <<"N/A">>}

\* a datetime object
DatetimeObjects == {<<"<datetime>", "2025-11-03", "14:32:00">>}

\* isinstance(time_created, str), isinstance(time_created, datetime)
IsStr(x) == x # NoText /\ x[1] # "<datetime>"
IsDatetime(x) == x # NoText /\ x[1] = "<datetime>"

\* time_created.replace('Z', '+00:00')
KeepZ(s) == s
ReplaceZ(s) == [i \in 1..Len(s) |-> IF s[i] = "Z" THEN "+00:00" ELSE s[i]]

\* datetime.fromisoformat(s) returns: YYYY-MM-DD, then optionally a
\* separator and HH:MM:SS, then optionally an offset +HH:MM
Parses(s) ==
    /\ Len(s) \in {1, 3, 4}
    /\ s[1] \in ValidDates
    /\ Len(s) >= 3 => (s[2] = "T" /\ s[3] \in ValidTimes)
    /\ Len(s) = 4 => s[4] \in {"+00:00", "+05:30"}

\* datetime.fromisoformat(s).strftime("%Y-%m-%d %H:%M:%S")
Strftime(s) == <<s[1], " ", IF Len(s) >= 3 THEN s[3] ELSE "00:00:00">>

\* incident.get(key, default)
Get(incident, key, default) ==
    IF incident[key] = Absent THEN default ELSE incident[key]

\* lines 9-19: the text put between the brackets
Timestamp(time_created) ==
    IF IsStr(time_created)
    THEN IF Parses(ReplaceZ(time_created))
         THEN Strftime(ReplaceZ(time_created))
         ELSE time_created
    ELSE IF IsDatetime(time_created)
    THEN <<time_created[2], " ", time_created[3]>>
    ELSE <<"Unknown Time">>

\* the four values format_incident puts into its text; None is printed
\* as the word None
format_incident(incident) ==
    [ts |-> Timestamp(incident.time_created),
     group |-> Get(incident, "group", "Unknown Group"),
     component |-> Get(incident, "component", "Unknown Component"),
     status_msg |-> Get(incident, "status_message", "Unknown Status")]

----------------------------------------------------------------------------
(* OpenAIAdapter (adapters/openai_adapter.py): one instance, the calls     *)
(* made on it one after the other, and the printing of what                *)
(* process_incident_async returned.                                        *)

MaxComponents == 2
MaxImpacts == 2
MaxCalls == 3

CompIds == {"c1", "c2"}

\* The components payload, in the order the two loops of
\* fetch_components_async visit it: one entry per component, with the
\* "name" of its group and its own "component_id" and "name".
ComponentEntries == [group : {"APIs", Absent}, component_id : CompIds,
                     name : {"Chat", Absent}]

Payloads == UNION {[1..n -> ComponentEntries] : n \in 0..MaxComponents}

\* lines 28-43: component_dict, a later entry replacing an earlier one
\* with the same component_id
component_dict(payload) ==
    [id \in {payload[i].component_id : i \in 1..Len(payload)} |->
        LET last == CHOOSE i \in 1..Len(payload) :
                        /\ payload[i].component_id = id
                        /\ \A j \in (i + 1)..Len(payload) : payload[j].component_id # id
        IN  [group |-> Get(payload[last], "group", "Unknown Group"),
             component |-> Get(payload[last], "name", "Unknown Component")]]

\* 'if self.component_map:' is false for None and for an empty dict
Cached(component_map) == ~component_map.none /\ DOMAIN component_map.map # {}

\* a raw incident of the incidents endpoint; incident.get("name") and
\* incident.get("created_at") are None for a key it lacks
RawIncidents == [name : {"Elevated error rates", PyNone},
                 created_at : {<<"2025-11-03", "T", "14:32:00", "Z">>, NoText}]

\* 'component_impacts' of the detail call, as their component ids
ImpactLists == UNION {[1..n -> CompIds] : n \in 0..MaxImpacts}

\* comp_info = component_map.get(comp_id, {}) and the two .get() on it
LookupUnknown(component_map, comp_id) ==
    [group |-> "Unknown Group", component |-> "Unknown Component"]
Lookup(component_map, comp_id) ==
    IF comp_id \in DOMAIN component_map
    THEN component_map[comp_id]
    ELSE [group |-> "Unknown Group", component |-> "Unknown Component"]

\* 'return results if results else [{...}]'
ResultsAsIs(results, created_at, title) == results
ResultsOrUnknown(results, created_at, title) ==
    IF results # <<>> THEN results
    ELSE <<[group |-> "Unknown", component |-> "Unknown",
            time_created |-> created_at, status_message |-> title]>>

\* lines 79-96 of process_incident_async
ProcessResults(component_map, incident, impacts) ==
    LET title == incident.name
        created_at == incident.created_at
        results == [i \in 1..Len(impacts) |->
                       [group |-> Lookup(component_map, impacts[i]).group,
                        component |-> Lookup(component_map, impacts[i]).component,
                        time_created |-> created_at,
                        status_message |-> title]]
    IN  ResultsOrUnknown(results, created_at, title)

\* OpenAIAdapter.__init__, no call made yet
NewOpenAIAdapter ==
    [pc |-> "idle", call |-> "none", last |-> "none",
     component_map |-> [none |-> TRUE, map |-> <<>>],
     requests |-> 0, calls |-> 0,
     incident |-> [name |-> PyNone, created_at |-> NoText],
     cmap |-> <<>>, impacts |-> <<>>, result |-> <<>>, printed |-> <<>>]

OpenAIInit ==
    /\ WatcherInit
    /\ rss = RssUnused
    /\ rssFeed = [pc |-> "unused"]
    /\ openai = NewOpenAIAdapter
    /\ fmt = [pc |-> "unused"]
    /\ adapters = [pc |-> "unused"]
    /\ parser = [pc |-> "unused"]
    /\ turn = [pc |-> "unused"]
    /\ tasks = [pc |-> "unused"]

\* fetch_components_async finds the table cached and returns it
FetchComponentsCached ==
    /\ openai.pc = "idle"
    /\ openai.calls < MaxCalls
    /\ Cached(openai.component_map)
    /\ openai' = [openai EXCEPT !.call = "fetch_components_async",
                                !.calls = @ + 1, !.last = "components",
                                !.cmap = openai.component_map.map]
    /\ UNCHANGED <<wvars, stopRequested, rss, rssFeed, fmt, adapters, parser,
                   turn, tasks>>

\* fetch_components_async requests the components endpoint, builds the
\* table, stores it and returns it
FetchComponentsRequest ==
    /\ openai.pc = "idle"
    /\ openai.calls < MaxCalls
    /\ ~Cached(openai.component_map)
    /\ \E payload \in Payloads :
        openai' = [openai EXCEPT !.call = "fetch_components_async",
                                 !.calls = @ + 1, !.requests = @ + 1,
                                 !.last = "components",
                                 !.component_map = [none |-> FALSE,
                                                    map |-> component_dict(payload)],
                                 !.cmap = component_dict(payload)]
    /\ UNCHANGED <<wvars, stopRequested, rss, rssFeed, fmt, adapters, parser,
                   turn, tasks>>

\* the request of fetch_components_async fails
FetchComponentsRaise ==
    /\ openai.pc = "idle"
    /\ openai.calls < MaxCalls
    /\ ~Cached(openai.component_map)
    /\ openai' = [openai EXCEPT !.call = "fetch_components_async",
                                !.calls = @ + 1, !.requests = @ + 1,
                                !.last = "raised"]
    /\ UNCHANGED <<wvars, stopRequested, rss, rssFeed, fmt, adapters, parser,
                   turn, tasks>>

\* process_incident_async up to its second await: the table comes from the
\* cache, the fields are read, the detail call is started
ProcessCached ==
    /\ openai.pc = "idle"
    /\ openai.calls < MaxCalls
    /\ Cached(openai.component_map)
    /\ \E incident \in RawIncidents :
        openai' = [openai EXCEPT !.call = "process_incident_async",
                                 !.calls = @ + 1, !.pc = "detail", !.last = "awaiting",
                                 !.incident = incident,
                                 !.cmap = openai.component_map.map,
                                 !.impacts = <<>>, !.result = <<>>, !.printed = <<>>]
    /\ UNCHANGED <<wvars, stopRequested, rss, rssFeed, fmt, adapters, parser,
                   turn, tasks>>

\* the same with a table that has to be requested first
ProcessRequest ==
    /\ openai.pc = "idle"
    /\ openai.calls < MaxCalls
    /\ ~Cached(openai.component_map)
    /\ \E incident \in RawIncidents, payload \in Payloads :
        openai' = [openai EXCEPT !.call = "process_incident_async",
                                 !.calls = @ + 1, !.requests = @ + 1,
                                 !.pc = "detail", !.last = "awaiting",
                                 !.incident = incident,
                                 !.component_map = [none |-> FALSE,
                                                    map |-> component_dict(payload)],
                                 !.cmap = component_dict(payload),
                                 !.impacts = <<>>, !.result = <<>>, !.printed = <<>>]
    /\ UNCHANGED <<wvars, stopRequested, rss, rssFeed, fmt, adapters, parser,
                   turn, tasks>>

\* process_incident_async raises what its components request raised
ProcessRaise_Components ==
    /\ openai.pc = "idle"
    /\ openai.calls < MaxCalls
    /\ ~Cached(openai.component_map)
    /\ openai' = [openai EXCEPT !.call = "process_incident_async",
                                !.calls = @ + 1, !.requests = @ + 1,
                                !.last = "raised"]
    /\ UNCHANGED <<wvars, stopRequested, rss, rssFeed, fmt, adapters, parser,
                   turn, tasks>>

\* the detail call returns the impacts and process_incident_async its records
DetailReturn ==
    /\ openai.pc = "detail"
    /\ \E impacts \in ImpactLists :
        openai' = [openai EXCEPT !.pc = "idle", !.last = "processed",
                                 !.impacts = impacts,
                                 !.result = ProcessResults(openai.cmap,
                                                           openai.incident, impacts)]
    /\ UNCHANGED <<wvars, stopRequested, rss, rssFeed, fmt, adapters, parser,
                   turn, tasks>>

\* the detail call fails and process_incident_async raises
DetailRaise ==
    /\ openai.pc = "detail"
    /\ openai' = [openai EXCEPT !.pc = "idle", !.last = "raised"]
    /\ UNCHANGED <<wvars, stopRequested, rss, rssFeed, fmt, adapters, parser,
                   turn, tasks>>

\* the watcher prints format_incident(processed) for each record the call
\* returned (watcher.py lines 50-53 and 104-109)
PrintProcessed ==
    /\ openai.pc = "idle"
    /\ openai.last = "processed"
    /\ openai' = [openai EXCEPT !.last = "printed",
                     !.printed = [i \in 1..Len(openai.result) |->
                                     format_incident(openai.result[i])]]
    /\ UNCHANGED <<wvars, stopRequested, rss, rssFeed, fmt, adapters, parser,
                   turn, tasks>>

OpenAINext ==
    \/ FetchComponentsCached
    \/ FetchComponentsRequest
    \/ FetchComponentsRaise
    \/ ProcessCached
    \/ ProcessRequest
    \/ ProcessRaise_Components
    \/ DetailReturn
    \/ DetailRaise
    \/ PrintProcessed

OpenAISpec == OpenAIInit /\ [][OpenAINext]_vars

\* C13: with a non-empty impact list, process_incident_async returns one
\* record per impact, in the order of the detail call, each with the group
\* and component the table holds for its component id, or "Unknown Group"
\* and "Unknown Component" when the table lacks the id.
C13_OneRecordPerImpact ==
    (openai.last \in {"processed", "printed"} /\ openai.impacts # <<>>) =>
        /\ Len(openai.result) = Len(openai.impacts)
        /\ \A i \in 1..Len(openai.impacts) :
            LET id == openai.impacts[i]
                table == openai.component_map.map
            IN  /\ id \in DOMAIN table =>
                      /\ openai.result[i].group = table[id].group
                      /\ openai.result[i].component = table[id].component
                /\ id \notin DOMAIN table =>
                      /\ openai.result[i].group = "Unknown Group"
                      /\ openai.result[i].component = "Unknown Component"

\* two impacts, the first in the table under its own names, the second not
C13_Witness ==
    /\ openai.last = "processed"
    /\ Len(openai.impacts) = 2
    /\ openai.impacts[1] \in DOMAIN openai.component_map.map
    /\ openai.impacts[2] \notin DOMAIN openai.component_map.map
    /\ openai.result[1].group = "APIs"
    /\ openai.result[1].component = "Chat"
    /\ openai.result[2].group = "Unknown Group"

\* C14: with an empty impact list, process_incident_async returns exactly
\* one record, Unknown/Unknown with the incident's title as status message;
\* a call that returns never returns zero records.
C14_EmptyImpactsGiveOneUnknown ==
    openai.last \in {"processed", "printed"} =>
        /\ Len(openai.result) >= 1
        /\ openai.impacts = <<>> =>
              openai.result = <<[group |-> "Unknown", component |-> "Unknown",
                                 time_created |-> openai.incident.created_at,
                                 status_message |-> openai.incident.name]>>

\* a titled incident with no impacts has been processed
C14_Witness ==
    /\ openai.last = "processed"
    /\ openai.impacts = <<>>
    /\ openai.incident.name = "Elevated error rates"
    /\ Len(openai.result) = 1

\* C15 as stated: however many calls are made on one instance, the
\* components endpoint is requested at most once.
C15_ComponentsRequestedAtMostOnce ==
    openai.requests <= 1

\* C18 as stated: every printed record has a group, a component, a time and
\* a status message; None never stands in the place of one.
C18_OutputFullyPopulated ==
    openai.last = "printed" =>
        \A i \in 1..Len(openai.printed) :
            /\ openai.printed[i].group \notin {PyNone, Absent}
            /\ openai.printed[i].component \notin {PyNone, Absent}
            /\ openai.printed[i].status_msg \notin {PyNone, Absent}
            /\ openai.printed[i].ts # NoText

----------------------------------------------------------------------------
(* One call of RSSAdapter._format_incidents or of format_incident, on      *)
(* inputs of every shape.                                                  *)

MaxServices == 2

\* service strings with no, one and two " - " in them
FormatServiceNames == ServiceNames \cup {<<"Voice", "Calls", "Outbound">>}

ServiceLists == UNION {[1..n -> FormatServiceNames] : n \in 0..MaxServices}

\* the dicts format_incident is given
FormatIncidents ==
    [group : {"APIs", Absent}, component : {"Chat", Absent},
     status_message : {"Elevated error rates", PyNone, Absent},
     time_created : TimeStrings \cup DatetimeObjects \cup {NoText}]

FormatUnused ==
    [pc |-> "unused", op |-> "none", adapter |-> "RSS", services |-> <<>>,
     title |-> [none |-> TRUE, kws |-> {}], pub_date |-> "N/A",
     incident |-> [group |-> Absent, component |-> Absent,
                   status_message |-> Absent, time_created |-> NoText],
     records |-> <<>>,
     text |-> [ts |-> NoText, group |-> Absent, component |-> Absent,
               status_msg |-> Absent]]

FormatInit ==
    /\ WatcherInit
    /\ rss = RssUnused
    /\ rssFeed = [pc |-> "unused"]
    /\ openai = [pc |-> "unused"]
    /\ adapters = [pc |-> "unused"]
    /\ parser = [pc |-> "unused"]
    /\ turn = [pc |-> "unused"]
    /\ tasks = [pc |-> "unused"]
    /\ \/ \E a \in RssAdapters, s \in ServiceLists, ti \in Titles, pd \in PubDates :
            fmt = [FormatUnused EXCEPT !.pc = "called", !.op = "_format_incidents",
                                       !.adapter = a, !.services = s,
                                       !.title = ti, !.pub_date = pd]
       \/ \E incident \in FormatIncidents :
            fmt = [FormatUnused EXCEPT !.pc = "called", !.op = "format_incident",
                                       !.incident = incident]

\* self._format_incidents(services, title, pub_date) returns
FormatIncidentsReturn ==
    /\ fmt.pc = "called"
    /\ fmt.op = "_format_incidents"
    /\ fmt' = [fmt EXCEPT !.pc = "returned",
                  !.records = _format_incidents(fmt.adapter, fmt.services,
                                                fmt.title, fmt.pub_date)]
    /\ UNCHANGED <<wvars, stopRequested, rss, rssFeed, openai, adapters, parser,
                   turn, tasks>>

\* format_incident(incident) returns
FormatIncidentReturn ==
    /\ fmt.pc = "called"
    /\ fmt.op = "format_incident"
    /\ fmt' = [fmt EXCEPT !.pc = "returned", !.text = format_incident(fmt.incident)]
    /\ UNCHANGED <<wvars, stopRequested, rss, rssFeed, openai, adapters, parser,
                   turn, tasks>>

FormatNext == FormatIncidentsReturn \/ FormatIncidentReturn

FormatSpec == FormatInit /\ [][FormatNext]_vars

\* C16: _format_incidents returns one record per service string, in the
\* same order; a string containing " - " is split once, at the first
\* " - ", into group and component; any other string is the component and
\* the source's display name is the group.
C16_SplitOnceAtFirstSeparator ==
    (fmt.pc = "returned" /\ fmt.op = "_format_incidents") =>
        /\ Len(fmt.records) = Len(fmt.services)
        /\ \A i \in 1..Len(fmt.services) :
            LET service == fmt.services[i]
            IN  IF Len(service) >= 2
                THEN /\ fmt.records[i].group = <<service[1]>>
                     /\ fmt.records[i].component = SubSeq(service, 2, Len(service))
                ELSE /\ fmt.records[i].group = <<fmt.adapter>>
                     /\ fmt.records[i].component = service

\* "API - Chat Completions" and "Webhooks" normalized for Bolna, and a
\* string with two separators
C16_Witness ==
    /\ fmt.pc = "returned"
    /\ fmt.adapter = "Bolna"
    /\ fmt.services = <<<<"API", "Chat Completions">>, <<"Webhooks">>>>
    /\ fmt.records[1].group = <<"API">>
    /\ fmt.records[1].component = <<"Chat Completions">>
    /\ fmt.records[2].group = <<"Bolna">>
    /\ fmt.records[2].component = <<"Webhooks">>

\* an ISO-8601 timestamp: a date, then optionally T and a time of day, then
\* optionally Z or an offset
Iso8601(s) ==
    /\ Len(s) \in {1, 3, 4}
    /\ s[1] \in ValidDates
    /\ Len(s) >= 3 => (s[2] = "T" /\ s[3] \in ValidTimes)
    /\ Len(s) = 4 => s[4] \in Zones

\* C17: format_incident returns for every timestamp string; an ISO-8601
\* timestamp, Z accepted, is rendered as YYYY-MM-DD HH:MM:SS, and a string
\* that cannot be parsed is rendered as it is.
C17_TimestampRenderedOrUnchanged ==
    /\ fmt.op = "format_incident" => fmt.pc \in {"called", "returned"}
    /\ (fmt.pc = "returned" /\ fmt.op = "format_incident"
            /\ IsStr(fmt.incident.time_created)) =>
          LET s == fmt.incident.time_created
          IN  IF Iso8601(s)
              THEN fmt.text.ts = <<s[1], " ", IF Len(s) >= 3 THEN s[3] ELSE "00:00:00">>
              ELSE fmt.text.ts = s

\* "2025-11-03T14:32:00Z" has been rendered as "2025-11-03 14:32:00"
C17_Witness ==
    /\ fmt.pc = "returned"
    /\ fmt.incident.time_created = <<"2025-11-03", "T", "14:32:00", "Z">>
    /\ fmt.text.ts = <<"2025-11-03", " ", "14:32:00">>

----------------------------------------------------------------------------
(* AdapterRegistry (adapters/registry.py): the dict self.adapters, with    *)
(* DOMAIN its keys and keys their insertion order, and the latest call.    *)

AdapterNames == {"openai", "bolna", "claude"}
AdapterClasses == {"OpenAIAdapter", "BolnaAdapter", "ClaudeAdapter"}

\* 'name in self.adapters'
RegisteredNever(registered, name) == FALSE
Registered(registered, name) == name \in DOMAIN registered

\* self.adapters.get(name)
DictGet(registered, name) ==
    IF name \in DOMAIN registered THEN registered[name] ELSE PyNone

\* AdapterRegistry.__init__
NewRegistry ==
    [map |-> <<>>, keys |-> <<>>, op |-> "none", name |-> PyNone, arg |-> PyNone,
     outcome |-> "none", value |-> PyNone]

RegistryInit ==
    /\ WatcherInit
    /\ rss = RssUnused
    /\ rssFeed = [pc |-> "unused"]
    /\ openai = [pc |-> "unused"]
    /\ fmt = [pc |-> "unused"]
    /\ adapters = NewRegistry
    /\ parser = [pc |-> "unused"]
    /\ turn = [pc |-> "unused"]
    /\ tasks = [pc |-> "unused"]

\* register_adapter(name, adapter) with a name already registered
RegisterRaise ==
    /\ \E name \in AdapterNames, adapter \in AdapterClasses :
        /\ Registered(adapters.map, name)
        /\ adapters' = [adapters EXCEPT !.op = "register_adapter", !.name = name,
                                        !.arg = adapter, !.outcome = "raised",
                                        !.value = PyNone]
    /\ UNCHANGED <<wvars, stopRequested, rss, rssFeed, openai, fmt, parser,
                   turn, tasks>>

\* register_adapter(name, adapter) with a new name
RegisterReturn ==
    /\ \E name \in AdapterNames, adapter \in AdapterClasses :
        /\ ~Registered(adapters.map, name)
        /\ adapters' = [adapters EXCEPT
              !.map = [n \in DOMAIN adapters.map \cup {name} |->
                          IF n = name THEN adapter ELSE adapters.map[n]],
              !.keys = IF name \in DOMAIN adapters.map THEN @ ELSE Append(@, name),
              !.op = "register_adapter", !.name = name, !.arg = adapter,
              !.outcome = "returned", !.value = PyNone]
    /\ UNCHANGED <<wvars, stopRequested, rss, rssFeed, openai, fmt, parser,
                   turn, tasks>>

\* get_adapter(name) finds the class
GetAdapterReturn ==
    /\ \E name \in AdapterNames :
        /\ DictGet(adapters.map, name) # PyNone
        /\ adapters' = [adapters EXCEPT !.op = "get_adapter", !.name = name,
                                        !.arg = PyNone, !.outcome = "returned",
                                        !.value = DictGet(adapters.map, name)]
    /\ UNCHANGED <<wvars, stopRequested, rss, rssFeed, openai, fmt, parser,
                   turn, tasks>>

\* get_adapter(name) finds nothing
GetAdapterRaise ==
    /\ \E name \in AdapterNames :
        /\ DictGet(adapters.map, name) = PyNone
        /\ adapters' = [adapters EXCEPT !.op = "get_adapter", !.name = name,
                                        !.arg = PyNone, !.outcome = "raised",
                                        !.value = PyNone]
    /\ UNCHANGED <<wvars, stopRequested, rss, rssFeed, openai, fmt, parser,
                   turn, tasks>>

\* list_adapters() returns the keys in insertion order
ListAdapters ==
    /\ adapters' = [adapters EXCEPT !.op = "list_adapters", !.name = PyNone,
                                    !.arg = PyNone, !.outcome = "returned",
                                    !.value = adapters.keys]
    /\ UNCHANGED <<wvars, stopRequested, rss, rssFeed, openai, fmt, parser,
                   turn, tasks>>

RegistryNext ==
    \/ RegisterRaise
    \/ RegisterReturn
    \/ GetAdapterReturn
    \/ GetAdapterRaise
    \/ ListAdapters

RegistrySpec == RegistryInit /\ [][RegistryNext]_vars

\* C19: a key is registered at most once; register_adapter with a key that
\* is already registered raises and leaves the registry as it was, the
\* first adapter still bound to the key; get_adapter with a key that is
\* not registered raises.
C19_DuplicateAndUnknownKeysRaise ==
    /\ [](/\ \A i, j \in 1..Len(adapters.keys) :
                adapters.keys[i] = adapters.keys[j] => i = j
          /\ {adapters.keys[i] : i \in 1..Len(adapters.keys)} = DOMAIN adapters.map)
    /\ [][/\ (adapters'.op = "register_adapter"
                 /\ adapters'.name \in DOMAIN adapters.map) =>
                    /\ adapters'.outcome = "raised"
                    /\ adapters'.map = adapters.map
                    /\ adapters'.keys = adapters.keys
          /\ (adapters'.op = "get_adapter"
                 /\ adapters'.name \notin DOMAIN adapters.map) =>
                    adapters'.outcome = "raised"]_vars

\* a second registration of a key, with another class, has raised and the
\* key is still bound to the first class
C19_Witness ==
    /\ adapters.op = "register_adapter"
    /\ adapters.outcome = "raised"
    /\ adapters.name \in DOMAIN adapters.map
    /\ adapters.map[adapters.name] # adapters.arg

----------------------------------------------------------------------------
(* HTMLIncidentParser (utils/rss_parser.py): the two page parsers, each on *)
(* pages of every shape.                                                   *)

MaxTexts == 4

\* soup.stripped_strings of a Bolna page: the label, separators and names
BolnaTexts == {"Affected services", "* * *", "Voice", "API"}

BolnaPages == UNION {[1..n -> BolnaTexts] : n \in 0..MaxTexts}

\* 'candidate and candidate not in {"* * *", "*", "Affected services"}'
RejectsLabelOnly(candidate) == candidate = "Affected services"
Rejects(candidate) == candidate \in {"* * *", "*", "Affected services"}

\* the while loop of lines 133-146 from index i on: after a label the first
\* text that is not rejected is appended and the scan goes on from it
RECURSIVE ScanFrom(_, _)
ScanFrom(texts, i) ==
    IF i > Len(texts) THEN <<>>
    ELSE IF texts[i] = "Affected services"
    THEN LET js == {j \in (i + 1)..Len(texts) : ~Rejects(texts[j])}
         IN  IF js = {} THEN <<>>
             ELSE <<texts[MinOf(js)]>> \o ScanFrom(texts, MinOf(js))
    ELSE ScanFrom(texts, i + 1)

\* lines 148-156: duplicates removed, first occurrences kept in order
parse_bolna_incident(texts) == NovelOnce(ScanFrom(texts, 1), {})

MaxPartTokens == 5

\* A text of a Claude page is the sequence of its words and of the
\* characters between them: <<"claude.ai", ",", " ", "Console", ".">> is
\* "claude.ai, Console."
ClaudeTokens == {"claude.ai", "Console", "and", " ", ",", "."}

ClaudeParts == UNION {[1..n -> ClaudeTokens] : n \in 0..MaxPartTokens}

\* A Claude page: the first text node that contains "this incident
\* affected:", if there is one, with what stands after the colon of the
\* phrase and with or without an earlier colon in the same node ("Update:
\* This incident affected: ..."); and the text of the <h1>, if there is one.
ClaudePages ==
    [node : {TRUE}, earlierColon : BOOLEAN, part : ClaudeParts, h1 : {PyNone}] \cup
    [node : {FALSE}, earlierColon : {FALSE}, part : {<<>>},
     h1 : {PyNone, "Elevated errors"}]

\* t.split(":", 1)[1]: what follows the first colon of the node
AfterFirstColon(page) ==
    IF page.earlierColon
    THEN <<" ", "This incident affected:">> \o page.part
    ELSE page.part

\* str.strip()
RECURSIVE LStrip(_)
LStrip(s) == IF s # <<>> /\ Head(s) = " " THEN LStrip(Tail(s)) ELSE s

RECURSIVE RStrip(_)
RStrip(s) ==
    IF s # <<>> /\ s[Len(s)] = " " THEN RStrip(SubSeq(s, 1, Len(s) - 1)) ELSE s

Strip(s) == RStrip(LStrip(s))

\* str.rstrip('.')
KeepDots(s) == s
RECURSIVE RStripDots(_)
RStripDots(s) ==
    IF s # <<>> /\ s[Len(s)] = "." THEN RStripDots(SubSeq(s, 1, Len(s) - 1)) ELSE s

\* part.replace(" and ", ", "): the occurrences from the left, none
\* overlapping the one before it
RECURSIVE ReplaceAnd(_)
ReplaceAnd(s) ==
    IF s = <<>> THEN <<>>
    ELSE IF Len(s) >= 3 /\ s[1] = " " /\ s[2] = "and" /\ s[3] = " "
    THEN <<",", " ">> \o ReplaceAnd(SubSeq(s, 4, Len(s)))
    ELSE <<Head(s)>> \o ReplaceAnd(Tail(s))

\* part.split(",")
RECURSIVE SplitComma(_)
SplitComma(s) ==
    IF s = <<>> THEN << <<>> >>
    ELSE LET rest == SplitComma(Tail(s))
         IN  IF Head(s) = "," THEN << <<>> >> \o rest
             ELSE << <<Head(s)>> \o rest[1] >> \o Tail(rest)

\* lines 174-191 on the node found, else the <h1>, else "Unknown Service"
parse_claude_incident(page) ==
    IF page.node
    THEN LET part == ReplaceAnd(Strip(AfterFirstColon(page)))
             pieces == SplitComma(part)
             services == [i \in 1..Len(pieces) |-> RStripDots(Strip(pieces[i]))]
         IN  SelectSeq(services, LAMBDA s : s # <<>>)
    ELSE IF page.h1 # PyNone THEN << <<page.h1>> >>
    ELSE << <<"Unknown Service">> >>

ParserUnused ==
    [pc |-> "unused", parser_type |-> PyNone, texts |-> <<>>,
     page |-> [node |-> FALSE, earlierColon |-> FALSE, part |-> <<>>, h1 |-> PyNone],
     result |-> <<>>]

PageInit ==
    /\ WatcherInit
    /\ rss = RssUnused
    /\ rssFeed = [pc |-> "unused"]
    /\ openai = [pc |-> "unused"]
    /\ fmt = [pc |-> "unused"]
    /\ adapters = [pc |-> "unused"]
    /\ turn = [pc |-> "unused"]
    /\ tasks = [pc |-> "unused"]
    /\ \/ \E texts \in BolnaPages :
            parser = [ParserUnused EXCEPT !.pc = "called", !.parser_type = "bolna",
                                          !.texts = texts]
       \/ \E page \in ClaudePages :
            parser = [ParserUnused EXCEPT !.pc = "called", !.parser_type = "claude",
                                          !.page = page]

\* parse_bolna_incident(html) returns
ParseBolnaReturn ==
    /\ parser.pc = "called"
    /\ parser.parser_type = "bolna"
    /\ parser' = [parser EXCEPT !.pc = "returned",
                                !.result = parse_bolna_incident(parser.texts)]
    /\ UNCHANGED <<wvars, stopRequested, rss, rssFeed, openai, fmt, adapters,
                   turn, tasks>>

\* parse_claude_incident(html) returns
ParseClaudeReturn ==
    /\ parser.pc = "called"
    /\ parser.parser_type = "claude"
    /\ parser' = [parser EXCEPT !.pc = "returned",
                                !.result = parse_claude_incident(parser.page)]
    /\ UNCHANGED <<wvars, stopRequested, rss, rssFeed, openai, fmt, adapters,
                   turn, tasks>>

PageNext == ParseBolnaReturn \/ ParseClaudeReturn

PageSpec == PageInit /\ [][PageNext]_vars

\* the positions of the label, and for a label the first later text that is
\* neither a separator nor the label
LabelsOf(texts) == {i \in 1..Len(texts) : texts[i] = "Affected services"}
NamesAfter(texts, i) ==
    {j \in (i + 1)..Len(texts) : texts[j] \notin {"* * *", "*", "Affected services"}}

\* C22 as stated: whatever the page lists and however often it shows the
\* label, parse_bolna_incident returns at most one service, the first
\* non-separator text after the label.
C22_AtMostOneService ==
    (parser.pc = "returned" /\ parser.parser_type = "bolna") =>
        LET found == {i \in LabelsOf(parser.texts) : NamesAfter(parser.texts, i) # {}}
        IN  IF found = {} THEN parser.result = <<>>
            ELSE parser.result =
                    <<parser.texts[MinOf(NamesAfter(parser.texts, MinOf(found)))]>>

\* C22 amended: parse_bolna_incident returns one service for each
\* occurrence of the label, the first non-separator text after it, in page
\* order and each name once; under a single label it returns at most one
\* service, whatever is listed after it.
C22_OneServicePerLabel ==
    (parser.pc = "returned" /\ parser.parser_type = "bolna") =>
        LET picks == {MinOf(NamesAfter(parser.texts, i)) :
                        i \in {l \in LabelsOf(parser.texts) :
                                  NamesAfter(parser.texts, l) # {}}}
            picked == [k \in 1..Cardinality(picks) |->
                          parser.texts[CHOOSE j \in picks :
                                          Cardinality({x \in picks : x < j}) = k - 1]]
        IN  /\ parser.result = NovelOnce(picked, {})
            /\ Cardinality(LabelsOf(parser.texts)) <= 1 => Len(parser.result) <= 1

\* one label followed by a separator and two names gave the first name only
C22_Witness ==
    /\ parser.pc = "returned"
    /\ parser.texts = <<"Affected services", "* * *", "Voice", "API">>
    /\ parser.result = <<"Voice">>

\* the k-th smallest element of a set of numbers
Nth(S, k) == CHOOSE i \in S : Cardinality({j \in S : j < i}) = k - 1

\* the pieces of s between its commas, in order
Pieces(s) ==
    LET cuts == {0} \cup {i \in 1..Len(s) : s[i] = ","} \cup {Len(s) + 1}
    IN  [k \in 1..(Cardinality(cuts) - 1) |->
            SubSeq(s, Nth(cuts, k) + 1, Nth(cuts, k + 1) - 1)]

\* s without the tokens of chars at its two ends, or at its right end only
Trimmed(s, chars) ==
    LET keep == {i \in 1..Len(s) : s[i] \notin chars}
    IN  IF keep = {} THEN <<>>
        ELSE SubSeq(s, Nth(keep, 1), Nth(keep, Cardinality(keep)))
RightTrimmed(s, chars) ==
    LET keep == {i \in 1..Len(s) : s[i] \notin chars}
    IN  IF keep = {} THEN <<>> ELSE SubSeq(s, 1, Nth(keep, Cardinality(keep)))

\* s with every " and " made ", ": an occurrence counts when it does not
\* share its first space with an occurrence that counts
AndAsComma(s) ==
    LET at == {i \in 1..(Len(s) - 2) : s[i] = " " /\ s[i + 1] = "and" /\ s[i + 2] = " "}
        before(i) == Cardinality({k \in 1..Len(s) : \A m \in 1..k : i - 2 * m \in at})
        counts == {i \in at : before(i) % 2 = 0}
        kept == {i \in 1..Len(s) : i - 2 \notin counts}
    IN  [k \in 1..Cardinality(kept) |->
            LET i == Nth(kept, k)
            IN  IF i \in counts THEN "," ELSE IF i - 1 \in counts THEN " " ELSE s[i]]

\* the non-empty entries of a sequence, in order
NonEmpty(entries) ==
    LET keep == {i \in 1..Len(entries) : entries[i] # <<>>}
    IN  [k \in 1..Cardinality(keep) |-> entries[Nth(keep, k)]]

\* C23 as stated: on a page with a text node containing the lead-in phrase,
\* parse_claude_incident returns what follows the colon of that node with
\* " and " treated as ", ", split on ",", each entry trimmed, empty entries
\* dropped, order preserved.
C23_NamesAfterLeadIn ==
    (parser.pc = "returned" /\ parser.parser_type = "claude" /\ parser.page.node) =>
        LET pieces == Pieces(AndAsComma(AfterFirstColon(parser.page)))
        IN  parser.result =
                NonEmpty([i \in 1..Len(pieces) |-> Trimmed(pieces[i], {" "})])

\* C23 amended: the text after the first colon of the node is trimmed,
\* " and " in it is made ", ", it is split on ","; each entry is trimmed
\* of spaces, then of the periods at its end; empty entries are dropped
\* and the order is preserved.
C23_NamesAfterLeadInWithoutPeriods ==
    (parser.pc = "returned" /\ parser.parser_type = "claude" /\ parser.page.node) =>
        LET text == Trimmed(AfterFirstColon(parser.page), {" "})
            pieces == Pieces(AndAsComma(text))
        IN  parser.result =
                NonEmpty([i \in 1..Len(pieces) |->
                             RightTrimmed(Trimmed(pieces[i], {" "}), {"."})])

\* "claude.ai, Console." gave claude.ai and Console
C23_Witness ==
    /\ parser.pc = "returned"
    /\ parser.parser_type = "claude"
    /\ parser.page.node
    /\ parser.page.part = <<"claude.ai", ",", " ", "Console", ".">>
    /\ parser.result = << <<"claude.ai">>, <<"Console">> >>

(***************************************************************************)
(* One adapter's turn in the Watcher with the raw incidents as dicts: the  *)
(* for-loop of show_initial_status (lines 96-102) in the baseline pass and *)
(* the for-loop of check_incidents (lines 43-53) in each poll cycle, on    *)
(* the adapter's own entry of last_seen_ids.  A raw incident is a record   *)
(* with its "id" (Absent when the dict has no such key) and the rest of    *)
(* its content.                                                            *)
(***************************************************************************)
MaxDictLen == 2

DictBodies == {"a", "b"}

IncidentDicts == [id : {"x1", Absent}, body : DictBodies]

DictLists == UNION {[1..n -> IncidentDicts] : n \in 0..MaxDictLen}

\* an id made up from the content when the dict has none
IdOrBody(incident) ==
    IF incident.id = Absent THEN incident.body ELSE incident.id

\* 'incident_id = incident.get("id")' (lines 44 and 97)
IdOf(incident) == Get(incident, "id", PyNone)

\* the ids of a list of raw incidents, position by position
RawIds(list) == [i \in 1..Len(list) |-> IdOf(list[i])]

TurnInit ==
    /\ WatcherInit
    /\ rss = RssUnused
    /\ rssFeed = [pc |-> "unused"]
    /\ openai = [pc |-> "unused"]
    /\ fmt = [pc |-> "unused"]
    /\ adapters = [pc |-> "unused"]
    /\ parser = [pc |-> "unused"]
    /\ tasks = [pc |-> "unused"]
    /\ turn = [pc |-> "baseline_fetch", seen |-> {}, list |-> <<>>, idx |-> 0,
               last |-> "none", announced |-> <<>>]

\* the adapter's turn is over with outcome st: the next thing that happens
\* to it is the fetch of the next check_incidents
TurnOver(rec, st, list) ==
    turn' = [rec EXCEPT !.pc = "fetch", !.list = list, !.idx = 0, !.last = st]

\* the await at line 86 returns; the first shown incident is marked (line
\* 99) and its processing awaited (line 102)
TurnBaselineFetchReturn ==
    /\ turn.pc = "baseline_fetch"
    /\ \E feed \in DictLists :
        LET list == Shown(Take(feed, FetchLimit)) IN
        IF list = <<>>
        THEN TurnOver(turn, "ok", list)
        ELSE turn' = [turn EXCEPT !.pc = "baseline_process", !.list = list,
                                  !.idx = 1,
                                  !.seen = @ \cup {IdOf(list[1])}]
    /\ UNCHANGED <<wvars, stopRequested, rss, rssFeed, openai, fmt, adapters,
                   parser, tasks>>

\* the await at line 86 raises: the except clause at line 117
TurnBaselineFetchRaise ==
    /\ turn.pc = "baseline_fetch"
    /\ TurnOver(turn, "fetch_failed", <<>>)
    /\ UNCHANGED <<wvars, stopRequested, rss, rssFeed, openai, fmt, adapters,
                   parser, tasks>>

\* the await at line 102 returns: the record is shown in the box and the
\* loop marks and processes the next incident, seen or not
TurnBaselineProcessReturn ==
    /\ turn.pc = "baseline_process"
    /\ IF turn.idx < Len(turn.list)
       THEN turn' = [turn EXCEPT !.idx = @ + 1,
                                 !.seen = @ \cup {IdOf(turn.list[turn.idx + 1])}]
       ELSE TurnOver(turn, "ok", turn.list)
    /\ UNCHANGED <<wvars, stopRequested, rss, rssFeed, openai, fmt, adapters,
                   parser, tasks>>

\* the await at line 102 raises: the except clause at line 117
TurnBaselineProcessRaise ==
    /\ turn.pc = "baseline_process"
    /\ TurnOver(turn, "process_failed", turn.list)
    /\ UNCHANGED <<wvars, stopRequested, rss, rssFeed, openai, fmt, adapters,
                   parser, tasks>>

\* lines 43-49 from position 'from' of the list on: the next incident whose
\* id is not in the seen set is marked and its processing awaited
TurnIterate(rec, list, from) ==
    LET j == NextNovel(RawIds(list), from, rec.seen) IN
    IF j = 0
    THEN TurnOver(rec, "ok", list)
    ELSE turn' = [rec EXCEPT !.pc = "process", !.list = list, !.idx = j,
                             !.seen = @ \cup {IdOf(list[j])}]

\* the await at line 41 returns
TurnFetchReturn ==
    /\ turn.pc = "fetch"
    /\ \E feed \in DictLists : TurnIterate(turn, Take(feed, FetchLimit), 1)
    /\ UNCHANGED <<wvars, stopRequested, rss, rssFeed, openai, fmt, adapters,
                   parser, tasks>>

\* the await at line 41 raises: the except clause at line 55
TurnFetchRaise ==
    /\ turn.pc = "fetch"
    /\ TurnOver(turn, "fetch_failed", <<>>)
    /\ UNCHANGED <<wvars, stopRequested, rss, rssFeed, openai, fmt, adapters,
                   parser, tasks>>

\* the await at line 49 returns: NEW UPDATE is printed for the incident
TurnProcessReturn ==
    /\ turn.pc = "process"
    /\ TurnIterate([turn EXCEPT !.announced = Append(@, turn.list[turn.idx])],
                   turn.list, turn.idx + 1)
    /\ UNCHANGED <<wvars, stopRequested, rss, rssFeed, openai, fmt, adapters,
                   parser, tasks>>

\* the await at line 49 raises: the except clause at line 55
TurnProcessRaise ==
    /\ turn.pc = "process"
    /\ TurnOver(turn, "process_failed", turn.list)
    /\ UNCHANGED <<wvars, stopRequested, rss, rssFeed, openai, fmt, adapters,
                   parser, tasks>>

TurnNext ==
    \/ TurnBaselineFetchReturn
    \/ TurnBaselineFetchRaise
    \/ TurnBaselineProcessReturn
    \/ TurnBaselineProcessRaise
    \/ TurnFetchReturn
    \/ TurnFetchRaise
    \/ TurnProcessReturn
    \/ TurnProcessRaise

TurnSpec == TurnInit /\ [][TurnNext]_vars

\* the step starts the processing of an incident, in the given passes
StartsProcessing(pcs) ==
    /\ turn'.pc \in pcs
    /\ turn'.pc # turn.pc \/ turn'.idx # turn.idx

\* the incidents without id among the announced ones
IdlessAnnounced ==
    {k \in 1..Len(turn.announced) : turn.announced[k].id = Absent}

\* C32 as stated: once the absent id is in the source's seen set, no step
\* starts the processing of an incident without id, in the baseline pass or
\* in a poll cycle, and at most one incident without id is ever announced.
C32_NoOtherIdlessEver ==
    /\ [][(PyNone \in turn.seen
            /\ StartsProcessing({"baseline_process", "process"}))
          => turn'.list[turn'.idx].id # Absent]_vars
    /\ [](Cardinality(IdlessAnnounced) <= 1)

\* C32, amended: once the absent id is in the source's seen set, no poll
\* cycle starts the processing of an incident without id, and at most one
\* incident without id is ever announced as a new update; incidents without
\* id all get the id None.  The baseline pass goes through its list
\* position by position, whatever is in the seen set.
C32_NoOtherIdlessInPollCycles ==
    /\ [][(PyNone \in turn.seen /\ StartsProcessing({"process"}))
          => turn'.list[turn'.idx].id # Absent]_vars
    /\ [][StartsProcessing({"baseline_process"})
          => /\ turn'.idx = turn.idx + 1
             /\ turn'.seen = turn.seen \cup {IdOf(turn'.list[turn'.idx])}]_vars
    /\ [](Cardinality(IdlessAnnounced) <= 1)
    /\ [](\A k \in 1..Len(turn.list) :
            turn.list[k].id = Absent <=> IdOf(turn.list[k]) = PyNone)

\* an incident without id was announced; a later cycle fetched another
\* incident without id and passed over it
C32_Witness ==
    /\ turn.pc = "fetch"
    /\ turn.last = "ok"
    /\ turn.announced = <<[id |-> Absent, body |-> "a"]>>
    /\ turn.list = <<[id |-> Absent, body |-> "b"]>>

(***************************************************************************)
(* Several check_incidents coroutines on one Watcher object, run by the    *)
(* same event loop: each is suspended only at its awaits (the fetch at     *)
(* line 41, the processing at line 49) and the code between two awaits     *)
(* runs without interruption.  They share self.last_seen_ids; the adapter  *)
(* position, the list and the loop position are locals of each run.        *)
(***************************************************************************)
Runs == {1, 2}

Pairs == Sources \X Ids

\* a count that stops at 2: never, once, more than once
Bump(n) == IF n < 2 THEN n + 1 ELSE 2

\* a dedup state of each run's own: what the run itself has marked
SeenByOwn(t) == [s \in Sources |-> {id \in Ids : <<s, id>> \in tasks.found[t]}]

\* 'self.last_seen_ids' as run t reads it at line 45: the one dict of the
\* Watcher object
SeenBy(t) == tasks.seen

\* a run that is not under way; 'last' is how the adapter it handled last
\* ended: normally, or in the except clause (line 55) after which await
TaskIdle(st) == [pc |-> "idle", ai |-> 1, list |-> <<>>, idx |-> 0, last |-> st]

TasksInit ==
    /\ WatcherInit
    /\ rss = RssUnused
    /\ rssFeed = [pc |-> "unused"]
    /\ openai = [pc |-> "unused"]
    /\ fmt = [pc |-> "unused"]
    /\ adapters = [pc |-> "unused"]
    /\ parser = [pc |-> "unused"]
    /\ turn = [pc |-> "unused"]
    /\ tasks = [pc |-> "running",
                seen |-> [s \in Sources |-> {}],
                run |-> [t \in Runs |-> TaskIdle("none")],
                found |-> [t \in Runs |-> {}],
                nfound |-> [p \in Pairs |-> 0],
                announced |-> [p \in Pairs |-> 0]]

\* run t is done with adapter i: the fetch of the next adapter is awaited,
\* or check_incidents returns
TaskAdvance(rec, t, i, st) ==
    LET nxt == AfterSource(i, st # "ok") IN
    tasks' = [rec EXCEPT !.run[t] =
                IF nxt <= NumAdapters
                THEN [pc |-> "fetch", ai |-> nxt, list |-> <<>>, idx |-> 0,
                      last |-> st]
                ELSE TaskIdle(st)]

\* lines 43-49 of run t from position 'from' on: novelty test and add with
\* no await between them, then the processing is awaited
TaskIterate(rec, t, list, from) ==
    LET s == Registry[rec.run[t].ai]
        j == NextNovel(list, from, SeenBy(t)[s])
    IN
    IF j = 0
    THEN TaskAdvance(rec, t, rec.run[t].ai, "ok")
    ELSE tasks' = [rec EXCEPT
                     !.seen = MarkSeen(@, s, list[j]),
                     !.found[t] = @ \cup {<<s, list[j]>>},
                     !.nfound[<<s, list[j]>>] = Bump(@),
                     !.run[t] = [pc |-> "process", ai |-> rec.run[t].ai,
                                 list |-> list, idx |-> j,
                                 last |-> rec.run[t].last]]

\* check_incidents is called: it runs up to the fetch of the first adapter
TaskStart(t) ==
    /\ tasks.run[t].pc = "idle"
    /\ tasks' = [tasks EXCEPT !.run[t].pc = "fetch"]
    /\ UNCHANGED <<wvars, stopRequested, rss, rssFeed, openai, fmt, adapters,
                   parser, turn>>

\* the await at line 41 returns in run t
TaskFetchReturn(t) ==
    /\ tasks.run[t].pc = "fetch"
    /\ \E feed \in FeedLists : TaskIterate(tasks, t, Take(feed, FetchLimit), 1)
    /\ UNCHANGED <<wvars, stopRequested, rss, rssFeed, openai, fmt, adapters,
                   parser, turn>>

\* the await at line 41 raises in run t
TaskFetchRaise(t) ==
    /\ tasks.run[t].pc = "fetch"
    /\ TaskAdvance(tasks, t, tasks.run[t].ai, "fetch_failed")
    /\ UNCHANGED <<wvars, stopRequested, rss, rssFeed, openai, fmt, adapters,
                   parser, turn>>

\* the await at line 49 returns in run t: NEW UPDATE is printed
TaskProcessReturn(t) ==
    /\ tasks.run[t].pc = "process"
    /\ LET r == tasks.run[t]
           p == <<Registry[r.ai], r.list[r.idx]>>
       IN TaskIterate([tasks EXCEPT !.announced[p] = Bump(@)],
                      t, r.list, r.idx + 1)
    /\ UNCHANGED <<wvars, stopRequested, rss, rssFeed, openai, fmt, adapters,
                   parser, turn>>

\* the await at line 49 raises in run t
TaskProcessRaise(t) ==
    /\ tasks.run[t].pc = "process"
    /\ TaskAdvance(tasks, t, tasks.run[t].ai, "process_failed")
    /\ UNCHANGED <<wvars, stopRequested, rss, rssFeed, openai, fmt, adapters,
                   parser, turn>>

TasksNext ==
    \/ \E t \in Runs : TaskStart(t)
    \/ \E t \in Runs : TaskFetchReturn(t)
    \/ \E t \in Runs : TaskFetchRaise(t)
    \/ \E t \in Runs : TaskProcessReturn(t)
    \/ \E t \in Runs : TaskProcessRaise(t)

TasksSpec == TasksInit /\ [][TasksNext]_vars

\* C33: with check_incidents runs interleaved at their awaits, a (source,
\* id) pair is found novel at most once over all the runs, so by at most
\* one run, and is announced at most once and only after it was found
\* novel; an incident whose processing a run awaits is already in the seen
\* set and was found novel by that run.
C33_NovelForOneRunOnly ==
    /\ \A p \in Pairs :
          /\ tasks.nfound[p] <= 1
          /\ tasks.announced[p] <= tasks.nfound[p]
          /\ tasks.nfound[p] = 1 <=> p[2] \in tasks.seen[p[1]]
    /\ \A t \in Runs : \A u \in Runs \ {t} :
          tasks.found[t] \cap tasks.found[u] = {}
    /\ \A t \in Runs :
          tasks.run[t].pc = "process" =>
              LET r == tasks.run[t] IN
              /\ r.list[r.idx] \in tasks.seen[Registry[r.ai]]
              /\ <<Registry[r.ai], r.list[r.idx]>> \in tasks.found[t]

\* run 1 awaits the processing of openai's x1; run 2 has fetched openai's
\* list meanwhile, passed over x1 and awaits the processing of x2
C33_Witness ==
    /\ tasks.run[1].pc = "process" /\ tasks.run[2].pc = "process"
    /\ tasks.run[1].ai = 1 /\ tasks.run[2].ai = 1
    /\ tasks.run[1].list[tasks.run[1].idx] = "x1"
    /\ tasks.run[2].list = <<"x1", "x2">>
    /\ tasks.run[2].idx = 2
    /\ tasks.found[1] = {<<"openai", "x1">>}
    /\ tasks.found[2] = {<<"openai", "x2">>}
    /\ tasks.announced[<<"openai", "x1">>] = 0

====
